---- MODULE Spec2Model ----
(***************************************************************************)
(* A model of the entity pipeline of IntelligenceService                   *)
(* (src/src/ai-agent/services/intelligence-service.ts): the two            *)
(* extractors, mergeEntities, classifyEntities and the confidence scorer.  *)
(*                                                                         *)
(* Representation.                                                         *)
(*   - A string that the code inspects character by character (an entity   *)
(*     name) is a sequence of one-character strings, so toLowerCase and    *)
(*     trim are computed, not assumed.                                     *)
(*   - A confidence is an integer number of thousandths (600 is 0.6); the  *)
(*     scorer's products are exact in thousandths on the values used here, *)
(*     the mean a clone's confidence takes in the classifier is rounded    *)
(*     down where it is no whole number of thousandths.                    *)
(*   - nlpEntities, aiEntities and mergedEntities hold the lists as they   *)
(*     were when analyzeContent bound them.                                *)
(*   - An attribute bag is a function from AttrKeys to values, Undefined   *)
(*     standing for a key that is absent or holds undefined.               *)
(*   - An optional field of a backend row is a sequence of length 0        *)
(*     (omitted) or 1 (given).                                             *)
(***************************************************************************)
EXTENDS Integers, Sequences, FiniteSets, TLC

VARIABLES
    ready,              \* IntelligenceService.ready
    training,           \* nlpManager.train() of initialize: running, done or failed
    pc,                 \* where the running call stands
    entityTypes,        \* request.entityTypes of the call to analyzeContent
    nlpEntities,        \* analyzeContent: const nlpEntities
    aiReply,            \* what the model backend answered to the extraction prompt
    aiEntities,         \* analyzeContent: const aiEntities
    mergedEntities,     \* analyzeContent: const mergedEntities
    clsReply,           \* what the model backend answered to the classification prompt
    classifiedEntities, \* analyzeContent: const classifiedEntities
    response,           \* the ContentAnalysisResponse returned
    nlpStatus,          \* how nlpManager.process settled: none, ok or error
    calls,              \* external calls the running call has issued, per kind
    hung,               \* the external call awaited will never settle
    fusedSwapped,       \* fuser runs: mergeEntities(aiEntities, nlpEntities)
    fusedSelf,          \* fuser runs: mergeEntities(nlpEntities, nlpEntities)
    fusedAlone,         \* fuser runs: mergeEntities(nlpEntities, [])
    inputsAfter,        \* fuser runs: nlpEntities and aiEntities after mergeEntities
    invocations,        \* concurrent calls: the locals of each analyzeContent call
    objects,            \* concurrent calls: the attribute objects and the allocator
    analysis,           \* WebsiteAnalyzerService.analyzeWebsite: the call under way
    sources,            \* MultiLinkCollector: the sources state
    isProcessing,       \* MultiLinkCollector: the isProcessing state
    run,                \* MultiLinkCollector: the startAnalysis call under way
    completions,        \* MultiLinkCollector: the arguments of the onComplete calls
    storedResults,      \* ExtractionResultModel.results
    storeOp             \* ExtractionResultModel: the last call and what it returned

fuserVars == <<fusedSwapped, fusedSelf, fusedAlone, inputsAfter>>

callVars == <<aiReply, clsReply, classifiedEntities, response>>

envVars == <<nlpStatus, calls, hung>>

\* the state of the components around the pipeline
hostVars == <<invocations, objects, analysis, sources, isProcessing, run,
              completions, storedResults, storeOp>>

concurrentVars == <<invocations, objects>>

collectorVars == <<sources, isProcessing, run, completions>>

storeVars == <<storedResults, storeOp>>

\* the state of the pipeline of one call
pipelineVars == <<ready, training, pc, entityTypes, nlpEntities, aiReply, aiEntities,
                  mergedEntities, clsReply, classifiedEntities, response, nlpStatus,
                  calls, hung, fusedSwapped, fusedSelf, fusedAlone, inputsAfter>>

vars == <<ready, training, pc, entityTypes, nlpEntities, aiReply, aiEntities,
          mergedEntities, clsReply, classifiedEntities, response, nlpStatus,
          calls, hung, fusedSwapped, fusedSelf, fusedAlone, inputsAfter,
          invocations, objects, analysis, sources, isProcessing, run, completions,
          storedResults, storeOp>>

----------------------------------------------------------------------------
(* Bounds of the model *)

\* the number of entities the two lists handed to the fuser hold together
MaxEntities == 3

----------------------------------------------------------------------------
(* Values *)

Undefined == "undefined"

\* 1.0 in thousandths: the cap of calculateEntityConfidence
One == 1000

SeqsUpTo(S, n) == UNION {[1..k -> S] : k \in 0..n}

\* String.prototype.toLowerCase on the letters used here
LowerChar(ch) ==
    CASE ch = "A" -> "a"
      [] ch = "B" -> "b"
      [] ch = "C" -> "c"
      [] OTHER -> ch

ToLowerCase(s) == [i \in 1..Len(s) |-> LowerChar(s[i])]

RECURSIVE TrimStart(_)
TrimStart(s) ==
    IF s # <<>> /\ Head(s) = " " THEN TrimStart(Tail(s)) ELSE s

RECURSIVE TrimEnd(_)
TrimEnd(s) ==
    IF s # <<>> /\ s[Len(s)] = " " THEN TrimEnd(SubSeq(s, 1, Len(s) - 1)) ELSE s

\* String.prototype.trim
Trim(s) == TrimEnd(TrimStart(s))

MathMax(a, b) == IF a >= b THEN a ELSE b
MathMin(a, b) == IF a <= b THEN a ELSE b

\* EntityType of types/extraction.ts, the two members the runs use
EntityTypes == {"business", "product"}

AttrKeys == {"category", "subcategory", "hsCode", "countryCode", "postalCode"}

NoAttributes == [k \in AttrKeys |-> Undefined]

Attrs(category, hsCode) ==
    [NoAttributes EXCEPT !["category"] = category, !["hsCode"] = hsCode]

\* { ...a, ...b }: every key b holds overrides a's
Spread(a, b) == [k \in AttrKeys |-> IF b[k] # Undefined THEN b[k] ELSE a[k]]

\* AnalyzedEntity of types/intelligence.ts
AnalyzedEntity(type, name, attributes, confidence, importance) ==
    [type |-> type, name |-> name, attributes |-> attributes, rawText |-> name,
     confidence |-> confidence,
     contexts |-> <<[text |-> name, importance |-> importance]>>]

----------------------------------------------------------------------------
(* mergeEntities *)

\* const allEntities = [...nlpEntities, ...aiEntities]
AllEntitiesDropAi(nlp, ai) == nlp

AllEntities(nlp, ai) == nlp \o ai

\* const key = `${entity.type}:${entity.name.toLowerCase().trim()}`; the
\* types hold no colon, so the pair stands for the string
EntityKeyNoLowerCase(entity) == <<entity.type, Trim(entity.name)>>

EntityKey(entity) == <<entity.type, Trim(ToLowerCase(entity.name))>>

\* the branch entityMap.has(key): attributes spread, contexts concatenated,
\* confidence the larger one
MergeExistingBlend(existing, entity) ==
    [existing EXCEPT
        !.attributes = Spread(existing.attributes, entity.attributes),
        !.contexts = existing.contexts \o entity.contexts,
        !.confidence = (existing.confidence + entity.confidence) \div 2]

MergeExistingSum(existing, entity) ==
    [existing EXCEPT
        !.attributes = Spread(existing.attributes, entity.attributes),
        !.contexts = existing.contexts \o entity.contexts,
        !.confidence = MathMin(existing.confidence + entity.confidence, One)]

MergeExistingLast(existing, entity) ==
    [existing EXCEPT
        !.attributes = Spread(existing.attributes, entity.attributes),
        !.contexts = existing.contexts \o entity.contexts,
        !.confidence = entity.confidence]

MergeExistingFirstWins(existing, entity) ==
    [existing EXCEPT
        !.attributes = Spread(entity.attributes, existing.attributes),
        !.contexts = existing.contexts \o entity.contexts,
        !.confidence = MathMax(existing.confidence, entity.confidence)]

MergeExisting(existing, entity) ==
    [existing EXCEPT
        !.attributes = Spread(existing.attributes, entity.attributes),
        !.contexts = existing.contexts \o entity.contexts,
        !.confidence = MathMax(existing.confidence, entity.confidence)]

\* The entity objects mergeEntities handles are kept in a heap, a sequence
\* that starts with the objects of nlpEntities and aiEntities; the Map is the
\* sequence of its values in insertion order, each the position of an object
\* of the heap. MapIndex is the index of the entry a key has, 0 when
\* entityMap.has(key) is false.
MapIndex(st, key) ==
    IF \E i \in 1..Len(st.map) : EntityKey(st.heap[st.map[i]]) = key
    THEN CHOOSE i \in 1..Len(st.map) : EntityKey(st.heap[st.map[i]]) = key
    ELSE 0

\* entityMap.set(key, entity): the Map would hold the input object itself
InsertShared(st, at) == [st EXCEPT !.map = Append(@, at)]

\* entityMap.set(key, {...entity}): the Map holds a new object
InsertClone(st, at) ==
    [heap |-> Append(st.heap, st.heap[at]),
     map |-> Append(st.map, Len(st.heap) + 1)]

\* one turn of the loop over allEntities, for the object at a position
MergeStep(st, at) ==
    LET i == MapIndex(st, EntityKey(st.heap[at])) IN
    IF i # 0
    THEN [st EXCEPT !.heap[st.map[i]] = MergeExisting(@, st.heap[at])]
    ELSE InsertClone(st, at)

RECURSIVE MergeLoop(_, _)
MergeLoop(st, rest) ==
    IF rest = <<>> THEN st
    ELSE MergeLoop(MergeStep(st, Head(rest)), Tail(rest))

\* the heap and the Map when the loop has ended
MergeRun(nlp, ai) ==
    MergeLoop([heap |-> nlp \o ai, map |-> <<>>],
              [i \in 1..Len(AllEntities(nlp, ai)) |-> i])

\* return Array.from(entityMap.values())
mergeEntities(nlp, ai) ==
    LET st == MergeRun(nlp, ai) IN
    [i \in 1..Len(st.map) |-> st.heap[st.map[i]]]

\* the two lists handed to mergeEntities, as the call leaves them
InputsAfterMerge(nlp, ai) ==
    LET st == MergeRun(nlp, ai) IN
    [nlp |-> SubSeq(st.heap, 1, Len(nlp)),
     ai |-> SubSeq(st.heap, Len(nlp) + 1, Len(nlp) + Len(ai))]

----------------------------------------------------------------------------
(* Runs of the fuser on entity lists of the declared type: every entity   *)
(* has a string for a name (a list with an undefined name makes            *)
(* mergeEntities throw, see MergeThrows)                                   *)

\* what a list handed to mergeEntities may hold: entities as the recognizer
\* shapes them (accuracy 0.6, importance 1) and as the model backend shapes
\* them (confidence 0.9, importance 0.8); "Ab" and "ab " differ in case and
\* blanks only
NlpShapedNames == {<<"A", "b">>, <<"c">>}

AiShapedNames == {<<"a", "b", " ">>, <<"c">>}

FuserEntities ==
    {AnalyzedEntity(t, n, Attrs("type", Undefined), 600, 1000)
        : t \in EntityTypes, n \in NlpShapedNames}
    \cup
    {AnalyzedEntity(t, n, Attrs("Tools", "8205"), 900, 800)
        : t \in EntityTypes, n \in AiShapedNames}

NoReply == [status |-> "none"]

NoResponse == [entities |-> <<>>, confidence |-> [num |-> 0, den |-> 1]]

NoCalls == [process |-> 0, extraction |-> 0, classification |-> 0]

NoInputs == [nlp |-> <<>>, ai |-> <<>>]

\* the components around the pipeline before any of their operations
NoObjects == [bags |-> <<>>, allocated |-> 0]

NoAnalysis == [pc |-> "idle"]

NoRun == [pc |-> "idle"]

NoStoreOp == [op |-> "none"]

HostIdle ==
    /\ invocations = <<>>
    /\ objects = NoObjects
    /\ analysis = NoAnalysis
    /\ sources = <<>> /\ isProcessing = FALSE /\ run = NoRun /\ completions = <<>>
    /\ storedResults = <<>> /\ storeOp = NoStoreOp

InitFuser ==
    /\ ready = TRUE /\ training = "done"
    /\ pc = "fuse"
    /\ entityTypes = EntityTypes
    /\ aiReply = NoReply /\ clsReply = NoReply
    /\ classifiedEntities = <<>> /\ response = NoResponse
    /\ nlpStatus = "none" /\ calls = NoCalls /\ hung = FALSE
    /\ \E all \in SeqsUpTo(FuserEntities, MaxEntities) :
         \E k \in 0..Len(all) :
            /\ nlpEntities = SubSeq(all, 1, k)
            /\ aiEntities = SubSeq(all, k + 1, Len(all))
    /\ mergedEntities = <<>>
    /\ fusedSwapped = <<>>
    /\ fusedSelf = <<>>
    /\ fusedAlone = <<>>
    /\ inputsAfter = NoInputs
    /\ HostIdle

Fuse ==
    /\ pc = "fuse"
    /\ mergedEntities' = mergeEntities(nlpEntities, aiEntities)
    /\ inputsAfter' = InputsAfterMerge(nlpEntities, aiEntities)
    /\ pc' = "fuseSwapped"
    /\ UNCHANGED <<hostVars, ready, training, callVars, envVars, entityTypes, nlpEntities, aiEntities,
                   fusedSwapped, fusedSelf, fusedAlone>>

FuseSwapped ==
    /\ pc = "fuseSwapped"
    /\ fusedSwapped' = mergeEntities(aiEntities, nlpEntities)
    /\ pc' = "fuseSelf"
    /\ UNCHANGED <<hostVars, ready, training, callVars, envVars, entityTypes, nlpEntities, aiEntities,
                   mergedEntities, fusedSelf, fusedAlone, inputsAfter>>

FuseSelf ==
    /\ pc = "fuseSelf"
    /\ fusedSelf' = mergeEntities(nlpEntities, nlpEntities)
    /\ pc' = "fuseAlone"
    /\ UNCHANGED <<hostVars, ready, training, callVars, envVars, entityTypes, nlpEntities, aiEntities,
                   mergedEntities, fusedSwapped, fusedAlone, inputsAfter>>

FuseAlone ==
    /\ pc = "fuseAlone"
    /\ fusedAlone' = mergeEntities(nlpEntities, <<>>)
    /\ pc' = "fused"
    /\ UNCHANGED <<hostVars, ready, training, callVars, envVars, entityTypes, nlpEntities, aiEntities,
                   mergedEntities, fusedSwapped, fusedSelf, inputsAfter>>

NextFuser == Fuse \/ FuseSwapped \/ FuseSelf \/ FuseAlone

SpecFuser == InitFuser /\ [][NextFuser]_vars

----------------------------------------------------------------------------
(* The fuser's claims, checked under SpecFuser *)

\* the key the specification names: (type, lowercased-trimmed name)
NormKey(e) == <<e.type, Trim(ToLowerCase(e.name))>>

KeysOf(list) == {NormKey(list[i]) : i \in 1..Len(list)}

\* the positions of a list that hold an entity with the key
Holders(list, key) == {i \in 1..Len(list) : NormKey(list[i]) = key}

FuserInputs == nlpEntities \o aiEntities

FuserRan == pc \in {"fuseSwapped", "fuseSelf", "fuseAlone", "fused"}

\* C1: the list mergeEntities returns holds no two entities with the same
\* (type, lowercased-trimmed name) key.
C1_NoTwoEntitiesShareAKey ==
    FuserRan =>
        \A i, j \in 1..Len(mergedEntities) :
            i # j => NormKey(mergedEntities[i]) # NormKey(mergedEntities[j])

\* C1's case: two inputs that differ in case and blanks only were fused into
\* one entity, next to an entity with another key
C1_Witness ==
    /\ FuserRan
    /\ Len(mergedEntities) = 2
    /\ \E i, j \in 1..Len(FuserInputs) :
        /\ i # j
        /\ FuserInputs[i].name # FuserInputs[j].name
        /\ NormKey(FuserInputs[i]) = NormKey(FuserInputs[j])

\* C2: for every key that occurs more than once across the two input lists,
\* the fused entity's confidence is the maximum of the confidences of the
\* input entities with that key.
C2_DuplicateKeepsMaxConfidence ==
    FuserRan =>
        \A key \in KeysOf(FuserInputs) :
            Cardinality(Holders(FuserInputs, key)) > 1 =>
                \E m \in Holders(mergedEntities, key) :
                    /\ \E i \in Holders(FuserInputs, key) :
                          mergedEntities[m].confidence = FuserInputs[i].confidence
                    /\ \A i \in Holders(FuserInputs, key) :
                          mergedEntities[m].confidence >= FuserInputs[i].confidence

\* C2's case, scenario A: each extractor returns one business entity, the
\* names differ in case, the confidences are 0.6 and 0.9; one business
\* entity with 0.9 comes out
C2_Witness ==
    /\ FuserRan
    /\ Len(nlpEntities) = 1 /\ Len(aiEntities) = 1
    /\ nlpEntities[1].type = "business" /\ aiEntities[1].type = "business"
    /\ nlpEntities[1].name = <<"A", "b">> /\ aiEntities[1].name = <<"a", "b", " ">>
    /\ nlpEntities[1].confidence = 600 /\ aiEntities[1].confidence = 900
    /\ Len(mergedEntities) = 1
    /\ mergedEntities[1].confidence = 900

FusersRan == pc = "fused"

\* the entity of a fused list that has the key
FusedWith(list, key) == list[CHOOSE i \in Holders(list, key) : TRUE]

\* a list of contexts up to order
ContextBag(contexts) ==
    [c \in {contexts[i] : i \in 1..Len(contexts)} |->
        Cardinality({i \in 1..Len(contexts) : contexts[i] = c})]

\* C3 as stated: fusing (A, B) and fusing (B, A) give the same keys and, per
\* key, the same entity (confidence, attributes and content).
C3_OrderInsensitive ==
    FusersRan =>
        /\ KeysOf(mergedEntities) = KeysOf(fusedSwapped)
        /\ \A key \in KeysOf(mergedEntities) :
              FusedWith(mergedEntities, key) = FusedWith(fusedSwapped, key)

\* C3 amended: fusing (A, B) and fusing (B, A) give the same keys and, per
\* key, the same type, the same confidence and the same contexts up to their
\* order; the name and rawText (the first entity's), the attribute values
\* two entities both hold (the later one's) and the order of the contexts
\* follow the order of processing.
C3_OrderInsensitiveKeysAndConfidence ==
    FusersRan =>
        /\ KeysOf(mergedEntities) = KeysOf(fusedSwapped)
        /\ \A key \in KeysOf(mergedEntities) :
              LET ab == FusedWith(mergedEntities, key)
                  ba == FusedWith(fusedSwapped, key)
              IN  /\ ab.type = ba.type
                  /\ ab.confidence = ba.confidence
                  /\ ContextBag(ab.contexts) = ContextBag(ba.contexts)

\* C3's case: a key held by an entity of A and by one of B that differ in
\* confidence, both orders fused
C3_Witness ==
    /\ FusersRan
    /\ \E i \in 1..Len(nlpEntities), j \in 1..Len(aiEntities) :
        /\ NormKey(nlpEntities[i]) = NormKey(aiEntities[j])
        /\ nlpEntities[i].confidence < aiEntities[j].confidence
        /\ FusedWith(fusedSwapped, NormKey(aiEntities[j])).confidence
              = aiEntities[j].confidence

\* C4: fusing a list with itself gives exactly the keys of fusing the list
\* alone, and every fused entity has the confidence it has in the fusion of
\* the list alone.
C4_FuseWithItselfIdempotent ==
    FusersRan =>
        /\ KeysOf(fusedSelf) = KeysOf(fusedAlone)
        /\ Len(fusedSelf) = Len(fusedAlone)
        /\ \A key \in KeysOf(fusedSelf) :
              FusedWith(fusedSelf, key).confidence
                  = FusedWith(fusedAlone, key).confidence

\* C4's case: a list of three entities with two keys, one of them held
\* twice with different confidences, fused with itself
C4_Witness ==
    /\ FusersRan
    /\ Len(nlpEntities) = 3
    /\ Len(fusedSelf) = 2
    /\ \E i, j \in 1..Len(nlpEntities) :
        /\ NormKey(nlpEntities[i]) = NormKey(nlpEntities[j])
        /\ nlpEntities[i].confidence # nlpEntities[j].confidence

\* C5: the keys of the fuser's output are the union of the keys of its two
\* input lists, and every input entity is represented by exactly one output
\* entity.
C5_OnlyDuplicatesAreDropped ==
    FuserRan =>
        /\ KeysOf(mergedEntities) = KeysOf(nlpEntities) \cup KeysOf(aiEntities)
        /\ \A i \in 1..Len(FuserInputs) :
              Cardinality(Holders(mergedEntities, NormKey(FuserInputs[i]))) = 1

\* C5's case: both lists hold entities, one key is shared between them and
\* another is held by the model-based list only
C5_Witness ==
    /\ FuserRan
    /\ Len(nlpEntities) >= 1 /\ Len(aiEntities) = 2
    /\ KeysOf(nlpEntities) \cap KeysOf(aiEntities) # {}
    /\ KeysOf(aiEntities) \ KeysOf(nlpEntities) # {}
    /\ Len(mergedEntities) = 2

----------------------------------------------------------------------------
(* Bounds of the calls to analyzeContent *)

\* the number of entities the recognizer reports for one content
MaxNlp == 1

\* the number of rows of the "entities" array of an extraction answer
MaxRows == 2

\* the number of rows of the "classifications" array of an answer
MaxClsRows == 2

----------------------------------------------------------------------------
(* extractEntitiesWithNLP, convertNlpEntitiesToAnalyzedEntities *)

\* entity.entity values the switch maps to an EntityType
NlpSupported == {"business", "product", "location", "contact", "person"}

\* what nlpManager.process reports in result.entities: the gazetteer entity,
\* the matched utterance, the option and the accuracy
NlpRawEntities ==
    { [entity |-> "business", utterance |-> <<"A", "b">>, option |-> "name",
       accuracy |-> 600],
      [entity |-> "product", utterance |-> <<"c">>, option |-> "type",
       accuracy |-> 1000],
      [entity |-> "date", utterance |-> <<"c">>, option |-> "type",
       accuracy |-> 1000] }

\* await this.nlpManager.process('en', content): it rejects or it resolves
NlpResults ==
    {[status |-> "error", entities |-> <<>>]}
    \cup {[status |-> "ok", entities |-> es] : es \in SeqsUpTo(NlpRawEntities, MaxNlp)}

RECURSIVE convertNlpEntitiesToAnalyzedEntities(_)
convertNlpEntitiesToAnalyzedEntities(raw) ==
    IF raw = <<>> THEN <<>>
    ELSE LET entity == Head(raw)
             rest == convertNlpEntitiesToAnalyzedEntities(Tail(raw))
         IN  IF entity.entity \in NlpSupported
             THEN <<AnalyzedEntity(entity.entity, entity.utterance,
                        Attrs(entity.option, Undefined), entity.accuracy, 1000)>>
                  \o rest
             ELSE rest

extractEntitiesWithNLP(result) ==
    IF result.status = "error" THEN <<>>
    ELSE convertNlpEntitiesToAnalyzedEntities(result.entities)

----------------------------------------------------------------------------
(* The text a model backend answers, as a sequence of tokens *)

Open == [t |-> "{"]
Close == [t |-> "}"]
Prose == [t |-> "prose"]
\* text that is no JSON member
Junk == [t |-> "junk"]
\* "key": [rows] when isArray, "key": "text" otherwise
Member(key, isArray, rows) ==
    [t |-> "member", key |-> key, isArray |-> isArray, rows |-> rows]

Positions(text, token) == {i \in 1..Len(text) : text[i].t = token}

Least(S) == CHOOSE i \in S : \A j \in S : i <= j
Greatest(S) == CHOOSE i \in S : \A j \in S : i >= j

\* response.match(/\{[\s\S]*\}/): from the first "{" to the last "}" after it;
\* the empty sequence stands for null (a match holds at least two tokens)
JsonMatch(text) ==
    LET opens == Positions(text, "{")
        closes == Positions(text, "}")
    IN  IF opens = {} \/ closes = {} THEN <<>>
        ELSE IF Greatest(closes) < Least(opens) THEN <<>>
        ELSE SubSeq(text, Least(opens), Greatest(closes))

\* JSON.parse accepts the span when it is one object: members between the
\* outer braces and nothing else
JsonValid(span) ==
    /\ Len(span) >= 2
    /\ \A i \in 2..(Len(span) - 1) : span[i].t = "member"

\* jsonResponse[key]: the last member with the key; a record with isArray
\* FALSE and hasKey FALSE when there is none
JsonGet(span, key) ==
    LET at == {i \in 2..(Len(span) - 1) : span[i].key = key} IN
    IF at = {} THEN [hasKey |-> FALSE, isArray |-> FALSE, rows |-> <<>>]
    ELSE [hasKey |-> TRUE, isArray |-> span[Greatest(at)].isArray,
          rows |-> span[Greatest(at)].rows]

\* await axios.post(...) of callAIModel: it rejects (callAIModel rethrows) or
\* it resolves with the content of the first choice
Reply(content) == [status |-> "ok", content |-> content]
ReplyError == [status |-> "error", content |-> <<>>]

\* the texts around a JSON object with one member
Wrapped(member) ==
    { <<Open, member, Close>>,
      <<Prose, Open, member, Close>>,
      <<Open, member, Close, Prose>> }

\* the texts that hold no JSON object with an array under the key
Malformed(key) ==
    { <<Prose>>,
      <<Close, Prose, Open>>,
      <<Open, Junk, Close>>,
      <<Open, Close>>,
      <<Open, Member(key, FALSE, <<>>), Close>> }

----------------------------------------------------------------------------
(* extractEntitiesWithAI, parseAIResponseToEntities *)

\* name of an entity whose row gave no name: the property holds undefined
UndefinedName == <<Undefined>>

\* a row of the "entities" array; name, attributes, confidence and context
\* are optional
Row(type, name, attributes, confidence) ==
    [type |-> type, name |-> name, attributes |-> attributes,
     confidence |-> confidence, context |-> <<>>]

AiRows ==
    { Row("business", << <<"a", "b", " ">> >>, <<>>, <<900>>),
      Row("business", << <<"A", "b">> >>, <<Attrs("Tools", Undefined)>>, <<0>>),
      Row("business", <<>>, <<>>, <<900>>),
      Row("product", << <<"c">> >>, <<Attrs(Undefined, "8205")>>, <<>>),
      Row("product", << <<"C">> >>, <<>>, <<-300>>),
      Row("product", << <<"A", "b">> >>, <<>>, <<1500>>) }

AiReplies ==
    {ReplyError}
    \cup {Reply(text) : text \in Malformed("entities")}
    \cup {Reply(text) : text \in
            UNION {Wrapped(Member("entities", TRUE, rows))
                      : rows \in SeqsUpTo(AiRows, MaxRows)}}

\* entity.confidence || 0.5: 0 is falsy
ConfidenceOrDefault(confidence) ==
    IF confidence = <<>> \/ confidence[1] = 0 THEN 500 ELSE confidence[1]

\* the object the map callback builds
RowToEntity(row) ==
    LET name == IF row.name = <<>> THEN UndefinedName ELSE row.name[1] IN
    [type |-> row.type,
     name |-> name,
     attributes |-> IF row.attributes = <<>> THEN NoAttributes ELSE row.attributes[1],
     rawText |-> name,
     confidence |-> ConfidenceOrDefault(row.confidence),
     contexts |-> <<[text |-> IF row.context = <<>> THEN name ELSE row.context[1],
                     importance |-> 800]>>]

\* .filter(entity => entityTypes.includes(entity.type)).map(...)
RECURSIVE MapUnfiltered(_, _)
MapUnfiltered(rows, types) ==
    IF rows = <<>> THEN <<>>
    ELSE <<RowToEntity(Head(rows))>> \o MapUnfiltered(Tail(rows), types)

RECURSIVE FilterAndMap(_, _)
FilterAndMap(rows, types) ==
    IF rows = <<>> THEN <<>>
    ELSE IF Head(rows).type \in types
         THEN <<RowToEntity(Head(rows))>> \o FilterAndMap(Tail(rows), types)
         ELSE FilterAndMap(Tail(rows), types)

parseAIResponseToEntities(content, types) ==
    LET jsonMatch == JsonMatch(content) IN
    IF jsonMatch = <<>> THEN <<>>
    ELSE IF ~JsonValid(jsonMatch) THEN <<>>
    ELSE LET entities == JsonGet(jsonMatch, "entities") IN
         IF ~entities.hasKey \/ ~entities.isArray THEN <<>>
         ELSE FilterAndMap(entities.rows, types)

extractEntitiesWithAI(reply, types) ==
    IF reply.status = "error" THEN <<>>
    ELSE parseAIResponseToEntities(reply.content, types)

\* entity.name.toLowerCase() of mergeEntities throws a TypeError when the
\* name is undefined
MergeThrows(nlp, ai) ==
    \E i \in 1..Len(AllEntities(nlp, ai)) :
        AllEntities(nlp, ai)[i].name = UndefinedName

----------------------------------------------------------------------------
(* classifyEntities, classifyProductEntities,                              *)
(* parseProductClassificationResponse                                      *)
(*                                                                         *)
(* {...entity} copies the reference to the attributes object, so a clone   *)
(* and its original share one attribute bag. The bags are kept in a heap,  *)
(* a sequence indexed like the list classifyEntities received; a clone is  *)
(* its name, its own confidence and the index of the bag it shares.        *)
(***************************************************************************)

\* a row of the "classifications" array; name, subcategory, hsCode and
\* confidence are optional
ClsRow(name, category, subcategory, hsCode, confidence) ==
    [name |-> name, category |-> category, subcategory |-> subcategory,
     hsCode |-> hsCode, confidence |-> confidence]

ClsRows ==
    { ClsRow(<< <<"C">> >>, "Tools", <<>>, <<"8205">>, <<900>>),
      ClsRow(<< <<"c">> >>, "Toys", <<"Games">>, <<>>, <<>>),
      ClsRow(<< <<"a", "b">> >>, "Parts", <<>>, <<>>, <<600>>),
      ClsRow(<<>>, "Tools", <<>>, <<>>, <<900>>) }

ClsReplies ==
    {ReplyError}
    \cup {Reply(text) : text \in Malformed("classifications")}
    \cup {Reply(<<Open, Member("classifications", TRUE, rows), Close>>)
            : rows \in SeqsUpTo(ClsRows, MaxClsRows)}

HeapOf(entities) == [i \in 1..Len(entities) |-> entities[i].attributes]

ProductIndexes(entities) == {i \in 1..Len(entities) : entities[i].type = "product"}

\* an object of the list handed to or returned by classifyProductEntities
Ref(entities, i) ==
    [at |-> i, name |-> entities[i].name, confidence |-> entities[i].confidence]

\* const productEntities = classifiedEntities.filter(...): the same objects
RECURSIVE ProductRefs(_, _)
ProductRefs(entities, i) ==
    IF i > Len(entities) THEN <<>>
    ELSE IF entities[i].type = "product"
         THEN <<Ref(entities, i)>> \o ProductRefs(entities, i + 1)
         ELSE ProductRefs(entities, i + 1)

\* the index in the Map's values of the entry with the key, 0 for none
CloneIndex(clones, key) ==
    IF \E i \in 1..Len(clones) : ToLowerCase(clones[i].name) = key
    THEN CHOOSE i \in 1..Len(clones) : ToLowerCase(clones[i].name) = key
    ELSE 0

\* entityMap.set(entity.name.toLowerCase(), {...entity}) for each original: a
\* repeated key keeps its place and takes the later clone
RECURSIVE CloneAll(_, _)
CloneAll(clones, originals) ==
    IF originals = <<>> THEN clones
    ELSE LET entity == Head(originals)
             i == CloneIndex(clones, ToLowerCase(entity.name))
         IN  CloneAll(IF i # 0 THEN [clones EXCEPT ![i] = entity]
                      ELSE Append(clones, entity),
                      Tail(originals))

\* one turn of the loop over jsonResponse.classifications;
\* classification.name.toLowerCase() throws when the row has no name
ApplyClassification(st, classification) ==
    IF st.threw THEN st
    ELSE IF classification.name = <<>> THEN [st EXCEPT !.threw = TRUE]
    ELSE LET i == CloneIndex(st.clones, ToLowerCase(classification.name[1])) IN
         IF i = 0 THEN st
         ELSE LET at == st.clones[i].at
                  patched ==
                      [st.heap[at] EXCEPT
                          !["category"] = classification.category,
                          !["subcategory"] =
                              IF classification.subcategory # <<>>
                              THEN classification.subcategory[1] ELSE @,
                          !["hsCode"] =
                              IF classification.hsCode # <<>>
                              THEN classification.hsCode[1] ELSE @]
                  blended ==
                      IF classification.confidence # <<>>
                           /\ classification.confidence[1] # 0
                      THEN (st.clones[i].confidence + classification.confidence[1])
                              \div 2
                      ELSE st.clones[i].confidence
              IN  [st EXCEPT !.heap[at] = patched,
                             !.clones[i].confidence = blended]

RECURSIVE ApplyClassifications(_, _)
ApplyClassifications(st, rows) ==
    IF rows = <<>> THEN st
    ELSE ApplyClassifications(ApplyClassification(st, Head(rows)), Tail(rows))

\* the list returned and the heap after the call
parseProductClassificationResponse(content, originals, heap) ==
    LET jsonMatch == JsonMatch(content)
        unchanged == [returned |-> originals, heap |-> heap]
    IN  IF jsonMatch = <<>> THEN unchanged
        ELSE IF ~JsonValid(jsonMatch) THEN unchanged
        ELSE LET classifications == JsonGet(jsonMatch, "classifications") IN
             IF ~classifications.hasKey \/ ~classifications.isArray THEN unchanged
             ELSE LET st == ApplyClassifications(
                               [clones |-> CloneAll(<<>>, originals),
                                heap |-> heap, threw |-> FALSE],
                               classifications.rows)
                  IN  IF st.threw
                      THEN [returned |-> originals, heap |-> st.heap]
                      ELSE [returned |-> st.clones, heap |-> st.heap]

classifyProductEntities(reply, originals, heap) ==
    IF reply.status = "error" THEN [returned |-> originals, heap |-> heap]
    ELSE parseProductClassificationResponse(reply.content, originals, heap)

\* classifiedProducts.find(cp => cp.name === entity.name): its index, 0 for
\* undefined
FindByName(classifiedProducts, name) ==
    LET at == {i \in 1..Len(classifiedProducts) : classifiedProducts[i].name = name}
    IN  IF at = {} THEN 0 ELSE Least(at)

\* the loop of classifyEntities that copies category and hsCode from the
\* classification found for a product; the confidence is not copied
RECURSIVE UpdateEntities(_, _, _, _)
UpdateEntities(entities, classifiedProducts, heap, i) ==
    IF i > Len(entities) THEN heap
    ELSE IF entities[i].type # "product"
         THEN UpdateEntities(entities, classifiedProducts, heap, i + 1)
    ELSE LET f == FindByName(classifiedProducts, entities[i].name) IN
         IF f = 0 THEN UpdateEntities(entities, classifiedProducts, heap, i + 1)
         ELSE LET from == classifiedProducts[f].at
                  category == heap[from]["category"]
                  hsCode == heap[from]["hsCode"]
              IN  UpdateEntities(entities, classifiedProducts,
                      [heap EXCEPT ![i]["category"] = category,
                                   ![i]["hsCode"] = hsCode],
                      i + 1)

\* the list classifyEntities returns: the objects it received, with the
\* attribute bags as the calls left them
classifyEntities(entities, reply) ==
    IF ProductIndexes(entities) = {} THEN entities
    ELSE LET classified == classifyProductEntities(reply, ProductRefs(entities, 1),
                                                   HeapOf(entities))
             heap == UpdateEntities(entities, classified.returned, classified.heap, 1)
         IN  [i \in 1..Len(entities) |-> [entities[i] EXCEPT !.attributes = heap[i]]]

----------------------------------------------------------------------------
(* calculateEntityConfidence, calculateOverallConfidence *)

Truthy(value) == value # Undefined /\ value # ""

\* adjustedConfidence before the cap; name.length / 50 is 20 thousandths a
\* character
AdjustedConfidence(entity) ==
    CASE entity.type = "business" ->
            (entity.confidence * (One + MathMin(Len(entity.name) * 20, 300))) \div One
      [] entity.type = "product" ->
            IF Truthy(entity.attributes["category"]) \/ Truthy(entity.attributes["hsCode"])
            THEN (entity.confidence * 1200) \div One
            ELSE entity.confidence
      [] entity.type = "location" ->
            IF Truthy(entity.attributes["countryCode"])
                 \/ Truthy(entity.attributes["postalCode"])
            THEN (entity.confidence * 1100) \div One
            ELSE entity.confidence
      [] OTHER -> entity.confidence

calculateEntityConfidenceUncapped(entities) ==
    [i \in 1..Len(entities) |->
        [entities[i] EXCEPT !.confidence = AdjustedConfidence(entities[i])]]

calculateEntityConfidence(entities) ==
    [i \in 1..Len(entities) |->
        [entities[i] EXCEPT !.confidence = MathMin(AdjustedConfidence(entities[i]), One)]]

\* typeWeights[entity.type] || 0.5, in tenths
TypeWeight(type) ==
    CASE type = "business" -> 10
      [] type = "product" -> 8
      [] type = "location" -> 7
      [] type = "contact" -> 6
      [] type = "person" -> 5
      [] type = "service" -> 8
      [] OTHER -> 5

RECURSIVE WeightedSum(_)
WeightedSum(entities) ==
    IF entities = <<>> THEN 0
    ELSE Head(entities).confidence * TypeWeight(Head(entities).type)
            + WeightedSum(Tail(entities))

RECURSIVE TotalWeight(_)
TotalWeight(entities) ==
    IF entities = <<>> THEN 0
    ELSE TypeWeight(Head(entities).type) + TotalWeight(Tail(entities))

RECURSIVE ConfidenceSum(_)
ConfidenceSum(entities) ==
    IF entities = <<>> THEN 0
    ELSE Head(entities).confidence + ConfidenceSum(Tail(entities))

calculateOverallConfidenceUnweighted(entities) ==
    IF Len(entities) = 0 THEN [num |-> 0, den |-> 1]
    ELSE [num |-> ConfidenceSum(entities), den |-> Len(entities)]

\* the quotient weightedSum / totalWeight as the pair of its terms
calculateOverallConfidence(entities) ==
    IF Len(entities) = 0 THEN [num |-> 0, den |-> 1]
    ELSE IF TotalWeight(entities) > 0
         THEN [num |-> WeightedSum(entities), den |-> TotalWeight(entities)]
         ELSE [num |-> 0, den |-> 1]

\* the object analyzeContent returns
ResponseOf(classified) ==
    LET entitiesWithConfidence == calculateEntityConfidence(classified) IN
    [entities |-> entitiesWithConfidence,
     confidence |-> calculateOverallConfidence(entitiesWithConfidence)]

----------------------------------------------------------------------------
(* The service: construction, initialize and one call to analyzeContent,   *)
(* cut where the code awaits                                               *)

RequestedTypes == SUBSET EntityTypes \ {{}}

Init ==
    /\ ready = FALSE
    /\ training = "running"
    /\ pc = "idle"
    /\ entityTypes = {}
    /\ nlpEntities = <<>>
    /\ aiReply = NoReply
    /\ aiEntities = <<>>
    /\ mergedEntities = <<>>
    /\ clsReply = NoReply
    /\ classifiedEntities = <<>>
    /\ response = NoResponse
    /\ nlpStatus = "none" /\ calls = NoCalls /\ hung = FALSE
    /\ fusedSwapped = <<>> /\ fusedSelf = <<>> /\ fusedAlone = <<>>
    /\ inputsAfter = NoInputs
    /\ HostIdle

\* await this.nlpManager.train() resolves: this.ready = true
TrainResolves ==
    /\ training = "running"
    /\ training' = "done"
    /\ ready' = TRUE
    /\ UNCHANGED <<hostVars, pc, entityTypes, nlpEntities, aiEntities, mergedEntities,
                   callVars, envVars, fuserVars>>

\* await this.nlpManager.train() rejects: initialize rethrows, ready stays false
TrainRejectsSetsReady ==
    /\ training = "running"
    /\ training' = "failed"
    /\ ready' = TRUE
    /\ UNCHANGED <<hostVars, pc, entityTypes, nlpEntities, aiEntities, mergedEntities,
                   callVars, envVars, fuserVars>>

TrainRejects ==
    /\ training = "running"
    /\ training' = "failed"
    /\ UNCHANGED <<hostVars, ready, pc, entityTypes, nlpEntities, aiEntities, mergedEntities,
                   callVars, envVars, fuserVars>>

\* analyzeContent(request) up to its first await: the ready check, then the
\* call of nlpManager.process
AnalyzeContentUnchecked ==
    /\ pc = "idle"
    /\ \E types \in RequestedTypes : entityTypes' = types
    /\ pc' = "nlp"
    /\ calls' = [calls EXCEPT !.process = @ + 1]
    /\ UNCHANGED <<hostVars, ready, training, nlpEntities, aiEntities, mergedEntities,
                   callVars, nlpStatus, hung, fuserVars>>

AnalyzeContent ==
    /\ pc = "idle"
    /\ \E types \in RequestedTypes : entityTypes' = types
    /\ pc' = IF ready THEN "nlp" ELSE "rejected"
    /\ calls' = IF ready THEN [calls EXCEPT !.process = @ + 1] ELSE calls
    /\ UNCHANGED <<hostVars, ready, training, nlpEntities, aiEntities, mergedEntities,
                   callVars, nlpStatus, hung, fuserVars>>

NlpSettlesFusesEarly ==
    /\ pc = "nlp" /\ ~hung
    /\ \E result \in NlpResults :
        /\ nlpStatus' = result.status
        /\ nlpEntities' = extractEntitiesWithNLP(result)
        /\ mergedEntities' = mergeEntities(extractEntitiesWithNLP(result), <<>>)
    /\ pc' = "ai"
    /\ calls' = [calls EXCEPT !.extraction = @ + 1]
    /\ UNCHANGED <<hostVars, ready, training, entityTypes, aiEntities, callVars, hung, fuserVars>>

\* nlpManager.process settles: extractEntitiesWithNLP returns, then
\* extractEntitiesWithAI builds the prompt and callAIModel posts it
NlpSettles ==
    /\ pc = "nlp" /\ ~hung
    /\ \E result \in NlpResults :
        /\ nlpStatus' = result.status
        /\ nlpEntities' = extractEntitiesWithNLP(result)
    /\ pc' = "ai"
    /\ calls' = [calls EXCEPT !.extraction = @ + 1]
    /\ UNCHANGED <<hostVars, ready, training, entityTypes, aiEntities, mergedEntities,
                   callVars, hung, fuserVars>>

\* the posts classifyEntities issues for a merged list: one for all the
\* products together when there is a product, none otherwise
ClassificationCallsPerProduct(entities) == Cardinality(ProductIndexes(entities))

ClassificationCalls(entities) == IF ProductIndexes(entities) = {} THEN 0 ELSE 1

\* the extraction post settles: extractEntitiesWithAI returns, mergeEntities
\* runs, classifyEntities posts the classification prompt when the merged
\* list holds a product and returns the list at once when it holds none
AiSettles ==
    /\ pc = "ai" /\ ~hung
    /\ \E reply \in AiReplies :
        LET ai == extractEntitiesWithAI(reply, entityTypes) IN
        /\ aiReply' = reply
        /\ aiEntities' = ai
        /\ IF MergeThrows(nlpEntities, ai)
           THEN /\ pc' = "failed"
                /\ UNCHANGED <<mergedEntities, classifiedEntities, response, calls>>
           ELSE LET merged == mergeEntities(nlpEntities, ai) IN
                /\ mergedEntities' = merged
                /\ calls' = [calls EXCEPT
                                !.classification = @ + ClassificationCalls(merged)]
                /\ IF ProductIndexes(merged) = {}
                   THEN /\ classifiedEntities' = classifyEntities(merged, NoReply)
                        /\ response' = ResponseOf(classifiedEntities')
                        /\ pc' = "done"
                   ELSE /\ pc' = "classify"
                        /\ UNCHANGED <<classifiedEntities, response>>
    /\ UNCHANGED <<hostVars, ready, training, entityTypes, nlpEntities, clsReply, nlpStatus,
                   hung, fuserVars>>

\* the classification post settles: classifyProductEntities and
\* classifyEntities return, the scorer runs, analyzeContent returns
ClassifierSettles ==
    /\ pc = "classify" /\ ~hung
    /\ \E reply \in ClsReplies :
        /\ clsReply' = reply
        /\ classifiedEntities' = classifyEntities(mergedEntities, reply)
        /\ response' = ResponseOf(classifiedEntities')
    /\ pc' = "done"
    /\ UNCHANGED <<hostVars, ready, training, entityTypes, nlpEntities, aiReply, aiEntities,
                   mergedEntities, envVars, fuserVars>>

\* the recognizer or the backend never answers the call awaited:
\* nlpManager.process and axios.post are called without a timeout, so the
\* await has no other way to end
NeverAnswers ==
    /\ pc \in {"nlp", "ai", "classify"} /\ ~hung
    /\ hung' = TRUE
    /\ UNCHANGED <<hostVars, ready, training, pc, entityTypes, nlpEntities, aiEntities,
                   mergedEntities, callVars, nlpStatus, calls, fuserVars>>

Next ==
    \/ TrainResolves
    \/ TrainRejects
    \/ AnalyzeContent
    \/ NlpSettles
    \/ AiSettles
    \/ ClassifierSettles
    \/ NeverAnswers

Spec == Init /\ [][Next]_vars

\* the event loop runs every continuation whose promise has settled
SpecLive == Spec /\ WF_vars(Next)

----------------------------------------------------------------------------
(* Runs of the scorer on entity lists of the declared type *)

\* the number of entities of a list handed to calculateEntityConfidence
MaxScored == 1

\* EntityType of types/extraction.ts
AllEntityTypes == {"business", "product", "location", "contact", "person", "service"}

\* a name of n characters; name.length / 50 reaches 0.3 at 15 characters
NameOfLength(n) == [i \in 1..n |-> "a"]

ScorerNames == {NameOfLength(n) : n \in {0, 2, 16}}

ScorerAttributes ==
    {NoAttributes} \cup {[NoAttributes EXCEPT ![k] = "x"] : k \in AttrKeys \ {"subcategory"}}

\* the confidences that reach the scorer: those of the recognizer and those
\* the backend reports, which nothing clamps
ScorerConfidences == {-300, 0, 600, One, 1500}

ScorerEntities ==
    {AnalyzedEntity(t, n, a, c, 800) :
        t \in AllEntityTypes, n \in ScorerNames, a \in ScorerAttributes,
        c \in ScorerConfidences}

\* the number of entities of a list whose aggregate confidence is taken
MaxAggregated == 2

\* entities of every type with a low and a high confidence, for the
\* weighted mean of calculateOverallConfidence
AggregatedEntities ==
    {AnalyzedEntity(t, <<"c">>, NoAttributes, c, 800)
        : t \in AllEntityTypes, c \in {200, 900}}

InitScorer ==
    /\ ready = TRUE /\ training = "done"
    /\ pc = "score"
    /\ entityTypes = AllEntityTypes
    /\ nlpEntities = <<>> /\ aiEntities = <<>> /\ mergedEntities = <<>>
    /\ aiReply = NoReply /\ clsReply = NoReply
    /\ classifiedEntities \in SeqsUpTo(ScorerEntities, MaxScored)
                              \cup SeqsUpTo(AggregatedEntities, MaxAggregated)
    /\ response = NoResponse
    /\ nlpStatus = "none" /\ calls = NoCalls /\ hung = FALSE
    /\ fusedSwapped = <<>> /\ fusedSelf = <<>> /\ fusedAlone = <<>>
    /\ inputsAfter = NoInputs
    /\ HostIdle

\* calculateEntityConfidence and calculateOverallConfidence on the list
Score ==
    /\ pc = "score"
    /\ response' = ResponseOf(classifiedEntities)
    /\ pc' = "scored"
    /\ UNCHANGED <<hostVars, ready, training, entityTypes, nlpEntities, aiReply, aiEntities,
                   mergedEntities, clsReply, classifiedEntities, envVars, fuserVars>>

NextScorer == Score

SpecScorer == InitScorer /\ [][NextScorer]_vars

----------------------------------------------------------------------------
(* Runs of parseAIResponseToEntities on answers that hold a JSON object   *)
(* with an array of entities                                               *)

\* the text the model puts before or after the object, with and without
\* brace characters
ProseAround == {<<>>, <<Prose>>, <<Open, Prose, Close>>, <<Close, Prose>>}

ParserReplies ==
    {Reply(pre \o <<Open, Member("entities", TRUE, rows), Close>> \o post) :
        pre \in ProseAround, post \in ProseAround, rows \in SeqsUpTo(AiRows, MaxRows)}

InitParser ==
    /\ ready = TRUE /\ training = "done"
    /\ pc = "parse"
    /\ entityTypes \in RequestedTypes
    /\ nlpEntities = <<>> /\ aiEntities = <<>> /\ mergedEntities = <<>>
    /\ aiReply \in ParserReplies
    /\ clsReply = NoReply
    /\ classifiedEntities = <<>>
    /\ response = NoResponse
    /\ nlpStatus = "none" /\ calls = NoCalls /\ hung = FALSE
    /\ fusedSwapped = <<>> /\ fusedSelf = <<>> /\ fusedAlone = <<>>
    /\ inputsAfter = NoInputs
    /\ HostIdle

\* return this.parseAIResponseToEntities(response, entityTypes)
Parse ==
    /\ pc = "parse"
    /\ aiEntities' = parseAIResponseToEntities(aiReply.content, entityTypes)
    /\ pc' = "parsed"
    /\ UNCHANGED <<hostVars, ready, training, entityTypes, nlpEntities, aiReply,
                   mergedEntities, clsReply, classifiedEntities, response, envVars,
                   fuserVars>>

NextParser == Parse

SpecParser == InitParser /\ [][NextParser]_vars

----------------------------------------------------------------------------
(* ExtractionResultModel (src/unnamed/part_005): the store of extraction   *)
(* results. The methods are async and hold no await, so each call runs to  *)
(* its end in one step.                                                    *)

\* the number of ids the results saved have
MaxIds == 2

ResultIds == 1..MaxIds

\* the times createdAt holds
CreationTimes == {1, 2}

\* new Date() of a later save
Now == 3

\* ExtractionResult of types/extraction.ts: the fields the store reads
StoredResults ==
    [id : ResultIds, createdAt : CreationTimes, updatedAt : CreationTimes]

\* this.results.findIndex(r => r.id === result.id), 0 for -1
FindIndex(results, id) ==
    IF \E i \in 1..Len(results) : results[i].id = id
    THEN Least({i \in 1..Len(results) : results[i].id = id})
    ELSE 0

saveAlwaysPush(results, result) ==
    [results |-> Append(results, result), returned |-> result]

\* save: the store and the value returned
save(results, result) ==
    LET existingIndex == FindIndex(results, result.id) IN
    IF existingIndex > 0
    THEN LET updated == [result EXCEPT !.updatedAt = Now] IN
         [results |-> [results EXCEPT ![existingIndex] = updated],
          returned |-> updated]
    ELSE [results |-> Append(results, result), returned |-> result]

\* findById: the entry in a sequence of length 1, the empty sequence for null
findById(results, id) ==
    IF FindIndex(results, id) > 0 THEN <<results[FindIndex(results, id)]>> ELSE <<>>

\* this.results.sort((a, b) => b.createdAt.getTime() - a.createdAt.getTime()):
\* the sort is stable and sorts the stored array itself
RECURSIVE SortByCreatedAtDesc(_, _)
SortByCreatedAtDesc(results, t) ==
    IF t < 1 THEN <<>>
    ELSE LET CreatedAtT(r) == r.createdAt = t IN
         SelectSeq(results, CreatedAtT) \o SortByCreatedAtDesc(results, t - 1)

\* delete: the store and the value returned
delete(results, id) ==
    LET IdDiffers(r) == r.id # id
        kept == SelectSeq(results, IdDiffers)
    IN  [results |-> kept, returned |-> Len(kept) < Len(results)]

Save ==
    \E result \in StoredResults :
        LET saved == save(storedResults, result) IN
        /\ storedResults' = saved.results
        /\ storeOp' = [op |-> "save", result |-> result, returned |-> saved.returned]
        /\ UNCHANGED <<pipelineVars, concurrentVars, analysis, collectorVars>>

FindById ==
    \E id \in ResultIds :
        /\ storeOp' = [op |-> "findById", id |-> id,
                       returned |-> findById(storedResults, id)]
        /\ UNCHANGED <<pipelineVars, concurrentVars, analysis, collectorVars,
                       storedResults>>

\* list with the default limit and offset
List ==
    /\ storedResults' = SortByCreatedAtDesc(storedResults, Now)
    /\ storeOp' = [op |-> "list",
                   returned |-> SubSeq(storedResults', 1,
                                       MathMin(10, Len(storedResults')))]
    /\ UNCHANGED <<pipelineVars, concurrentVars, analysis, collectorVars>>

Delete ==
    \E id \in ResultIds :
        LET deleted == delete(storedResults, id) IN
        /\ storedResults' = deleted.results
        /\ storeOp' = [op |-> "delete", id |-> id, returned |-> deleted.returned]
        /\ UNCHANGED <<pipelineVars, concurrentVars, analysis, collectorVars>>

NextStore == Save \/ FindById \/ List \/ Delete

SpecStore == Init /\ [][NextStore]_vars

----------------------------------------------------------------------------
(* WebsiteAnalyzerService.analyzeWebsite (services/website-analyzer-service.ts) *)
(* over WebsiteExtractorFactory.extract and WebsiteExtractor.extract            *)
(* (components/verification/SourceAttribution.tsx).                             *)

\* the number of entities of an extraction
MaxExtracted == 2

\* the attributes transformExtractionToAnalysis reads, of those modelled
ExtractedKeys == {"description", "url", "contactType", "city"}

NoExtractedAttributes == [k \in ExtractedKeys |-> Undefined]

FilledAttributes == [k \in ExtractedKeys |-> "x"]

\* the entities of the ContentAnalysisResponse WebsiteExtractor.analyzeContent receives
AnalysisEntities ==
    [type : {"business", "product", "contact", "location", "person"},
     name : {"a"}, confidence : {400, 900}]

\* WebsiteExtractor.transformAnalysisToEntities: the entity pushed carries id,
\* type, name, value, confidence, source, verified, userModified and the two
\* dates; it carries no attributes (the empty sequence stands for undefined)
transformAnalysisToEntities(entities) ==
    [i \in 1..Len(entities) |->
        [id |-> i, type |-> entities[i].type, name |-> entities[i].name,
         attributes |-> <<>>, confidence |-> entities[i].confidence]]

\* weights[entity.type] || 0.1 of WebsiteExtractor, in tenths
ExtractorWeight(type) ==
    CASE type = "business" -> 4
      [] type = "product" -> 3
      [] type = "location" -> 2
      [] type = "contact" -> 1
      [] OTHER -> 1

RECURSIVE ExtractorWeightedSum(_, _)
ExtractorWeightedSum(entities, i) ==
    IF i = 0 THEN 0
    ELSE ExtractorWeightedSum(entities, i - 1)
         + entities[i].confidence * ExtractorWeight(entities[i].type)

RECURSIVE ExtractorTotalWeight(_, _)
ExtractorTotalWeight(entities, i) ==
    IF i = 0 THEN 0
    ELSE ExtractorTotalWeight(entities, i - 1) + ExtractorWeight(entities[i].type)

\* WebsiteExtractor.calculateOverallConfidence, as a quotient
ExtractorOverallConfidence(entities) ==
    IF Len(entities) = 0 THEN [num |-> 0, den |-> 1]
    ELSE [num |-> ExtractorWeightedSum(entities, Len(entities)),
          den |-> ExtractorTotalWeight(entities, Len(entities))]

\* the value WebsiteExtractor.extract returns from its try block
DomCompleted(url, analysed) ==
    LET extractedEntities == transformAnalysisToEntities(analysed) IN
    [sourceUrl |-> url, extractedEntities |-> extractedEntities,
     confidence |-> ExtractorOverallConfidence(extractedEntities),
     status |-> "completed", error |-> <<>>]

\* the value WebsiteExtractor.extract returns from its catch block
DomFailed(url, message) ==
    [sourceUrl |-> url, extractedEntities |-> <<>>,
     confidence |-> [num |-> 0, den |-> 1],
     status |-> "failed", error |-> <<message>>]

\* what is thrown: an Error with a message, or a value that is no Error
ThrownErrors ==
    {[isError |-> TRUE, text |-> "m"], [isError |-> FALSE, text |-> "s"]}

\* error instanceof Error ? error.message : String(error)
ErrorMessage(error) == error.text

\* ExtractedEntity of types/extraction.ts, attributes included, as the
\* LLM-first extractor pushes them
LlmEntities ==
    [id : {1}, type : {"business", "product", "location"}, name : {"a"},
     attributes : {<<NoExtractedAttributes>>, <<FilledAttributes>>},
     confidence : {900}]

\* ExtractionResult of types/extraction.ts from the LLM-first extractor
LlmExtractions(url) ==
    {[sourceUrl |-> url, extractedEntities |-> entities,
      confidence |-> [num |-> 700, den |-> 1],
      status |-> status, error |-> <<>>] :
        entities \in SeqsUpTo(LlmEntities, 1), status \in {"completed", "processing"}}

\* value || fallback
OrElse(value, fallback) == IF Truthy(value) THEN value ELSE fallback

OfType(entities, type) ==
    LET IsOfType(entity) == entity.type = type IN SelectSeq(entities, IsOfType)

\* [...businesses].sort((a, b) => b.confidence - a.confidence)[0]: the sort is
\* stable, so the first business of the highest confidence
TopBusiness(businesses) ==
    businesses[Least({i \in 1..Len(businesses) :
        \A j \in 1..Len(businesses) : businesses[j].confidence <= businesses[i].confidence})]

\* reading a property of entity.attributes throws a TypeError when the
\* entity has no attributes
ReadsUndefinedAttributes(extraction) ==
    LET businesses == OfType(extraction.extractedEntities, "business")
        read == OfType(extraction.extractedEntities, "product")
                \o OfType(extraction.extractedEntities, "contact")
                \o OfType(extraction.extractedEntities, "location")
    IN  \/ Len(businesses) > 0 /\ TopBusiness(businesses).attributes = <<>>
        \/ \E i \in 1..Len(read) : read[i].attributes = <<>>

\* transformExtractionToAnalysis: the value returned, or the error thrown
transformExtractionToAnalysis(extraction) ==
    LET businesses == OfType(extraction.extractedEntities, "business")
        products == OfType(extraction.extractedEntities, "product")
        contacts == OfType(extraction.extractedEntities, "contact")
        locations == OfType(extraction.extractedEntities, "location")
        top == TopBusiness(businesses)
    IN  IF ReadsUndefinedAttributes(extraction)
        THEN [threw |-> TRUE, error |-> [isError |-> TRUE, text |-> "TypeError"]]
        ELSE [threw |-> FALSE,
              value |->
                [url |-> extraction.sourceUrl,
                 businessInfo |->
                    IF Len(businesses) > 0
                    THEN <<[name |-> top.name,
                            description |-> OrElse(top.attributes[1]["description"], ""),
                            confidence |-> top.confidence]>>
                    ELSE <<>>,
                 products |->
                    [i \in 1..Len(products) |->
                        [id |-> products[i].id, name |-> products[i].name,
                         description |-> OrElse(products[i].attributes[1]["description"], ""),
                         url |-> OrElse(products[i].attributes[1]["url"], extraction.sourceUrl),
                         confidence |-> products[i].confidence]],
                 contacts |->
                    [i \in 1..Len(contacts) |->
                        [id |-> contacts[i].id,
                         type |-> OrElse(contacts[i].attributes[1]["contactType"], "unknown"),
                         confidence |-> contacts[i].confidence]],
                 locations |->
                    [i \in 1..Len(locations) |->
                        [id |-> locations[i].id,
                         city |-> OrElse(locations[i].attributes[1]["city"], ""),
                         confidence |-> locations[i].confidence]],
                 status |-> extraction.status,
                 confidence |-> extraction.confidence,
                 error |-> extraction.error]]

\* the value analyzeWebsite returns from its catch block
FailedAnalysis(url, error) ==
    [url |-> url, businessInfo |-> <<>>, products |-> <<>>, contacts |-> <<>>,
     locations |-> <<>>, status |-> "failed",
     confidence |-> [num |-> 0, den |-> 1],
     error |-> <<ErrorMessage(error)>>]

\* the try block after extract has resolved, and the catch block
AnalysisOf(url, extraction) ==
    LET transformed == transformExtractionToAnalysis(extraction) IN
    IF transformed.threw THEN FailedAnalysis(url, transformed.error)
    ELSE transformed.value

\* analyzeWebsite(url, strategy) up to the await; getExtractor takes
\* strategy || this.config.defaultStrategy, and the default is LLM_FIRST
AnalyzeWebsite ==
    \E url \in {"u", "v"}, strategy \in {"dom-based", "llm-first", Undefined} :
        /\ analysis.pc \in {"idle", "returned"}
        /\ analysis' = [pc |-> "extracting", url |-> url,
                        strategy |-> OrElse(strategy, "llm-first")]
        /\ UNCHANGED <<pipelineVars, concurrentVars, collectorVars, storeVars>>

Resolved(extraction) ==
    analysis' = [pc |-> "returned", url |-> analysis.url,
                 strategy |-> analysis.strategy,
                 outcome |-> [kind |-> "resolved", extraction |-> extraction],
                 result |-> AnalysisOf(analysis.url, extraction)]

\* WebsiteExtractor.extract returns from its try block
DomExtractCompletes ==
    /\ analysis.pc = "extracting" /\ analysis.strategy = "dom-based"
    /\ \E analysed \in SeqsUpTo(AnalysisEntities, MaxExtracted) :
          Resolved(DomCompleted(analysis.url, analysed))
    /\ UNCHANGED <<pipelineVars, concurrentVars, collectorVars, storeVars>>

\* WebsiteExtractor.extract returns from its catch block
DomExtractFails ==
    /\ analysis.pc = "extracting" /\ analysis.strategy = "dom-based"
    /\ \E error \in ThrownErrors : Resolved(DomFailed(analysis.url, ErrorMessage(error)))
    /\ UNCHANGED <<pipelineVars, concurrentVars, collectorVars, storeVars>>

LlmExtractResolves ==
    /\ analysis.pc = "extracting" /\ analysis.strategy = "llm-first"
    /\ \E extraction \in LlmExtractions(analysis.url) : Resolved(extraction)
    /\ UNCHANGED <<pipelineVars, concurrentVars, collectorVars, storeVars>>

\* extract rejects: the LLM-first extractor throws, or browser.close() of the
\* finally block of WebsiteExtractor.extract does
ExtractRejects ==
    /\ analysis.pc = "extracting"
    /\ \E error \in ThrownErrors :
          analysis' = [pc |-> "returned", url |-> analysis.url,
                       strategy |-> analysis.strategy,
                       outcome |-> [kind |-> "rejected", error |-> error],
                       result |-> FailedAnalysis(analysis.url, error)]
    /\ UNCHANGED <<pipelineVars, concurrentVars, collectorVars, storeVars>>

NextAnalyzer ==
    \/ AnalyzeWebsite
    \/ DomExtractCompletes
    \/ DomExtractFails
    \/ LlmExtractResolves
    \/ ExtractRejects

SpecAnalyzer == Init /\ [][NextAnalyzer]_vars

----------------------------------------------------------------------------
(* MultiLinkCollector (services/website-analyzer-service.ts): the sources  *)
(* the user adds and the run of startAnalysis over them. A handler runs    *)
(* from one await to the next in one step; the state setters take          *)
(* functions of the previous state, so they apply to the current sources.  *)

\* the number of sources the user adds
MaxSources == 3

\* the number of times the user starts the analysis
MaxRuns == 2

\* a source as addSource appends it
PendingSource(type, value) ==
    [type |-> type, value |-> value, status |-> "pending", result |-> <<>>]

\* updated[i] = { ...updated[i], status: 'processing' }
MarkProcessing(list, i) == [list EXCEPT ![i].status = "processing"]

\* updated[i] = { ...updated[i], status: 'completed', result }
MarkCompleted(list, i, result) ==
    [list EXCEPT ![i].status = "completed", ![i].result = <<result>>]

\* extractDataFromSource: the mock resolves with a summary of the source
extractDataFromSource(source) ==
    [sourceType |-> source.type, sourceUrl |-> source.value]

\* addSource: the inputs stay enabled while the analysis runs
AddSource ==
    \E type \in {"website"}, value \in {"a", "b"} :
        /\ Len(sources) < MaxSources
        /\ sources' = Append(sources, PendingSource(type, value))
        /\ UNCHANGED <<pipelineVars, concurrentVars, analysis, storeVars,
                       isProcessing, run, completions>>

\* removeSource: its button is disabled while isProcessing
RemoveSource ==
    \E index \in 1..Len(sources) :
        /\ ~isProcessing
        /\ sources' = [i \in 1..(Len(sources) - 1) |->
                          IF i < index THEN sources[i] ELSE sources[i + 1]]
        /\ UNCHANGED <<pipelineVars, concurrentVars, analysis, storeVars,
                       isProcessing, run, completions>>

\* startAnalysis up to its first await: the button is disabled while
\* sources.length === 0 || isProcessing; the loop runs over the sources of
\* the render the handler was created in
StartAnalysis ==
    /\ Len(sources) # 0 /\ ~isProcessing
    /\ Len(completions) < MaxRuns
    /\ isProcessing' = TRUE
    /\ sources' = MarkProcessing(sources, 1)
    /\ run' = [pc |-> "awaiting", i |-> 1, closure |-> sources, results |-> <<>>]
    /\ UNCHANGED <<pipelineVars, concurrentVars, analysis, storeVars, completions>>

\* the extraction of sources[i] resolves: the rest of the iteration, then the
\* next iteration up to its await, or the end of startAnalysis
ExtractResolves ==
    /\ run.pc = "awaiting"
    /\ LET result == extractDataFromSource(run.closure[run.i])
           results == Append(run.results, result)
           completed == MarkCompleted(sources, run.i, result)
       IN  IF run.i + 1 <= Len(run.closure)
           THEN /\ sources' = MarkProcessing(completed, run.i + 1)
                /\ run' = [run EXCEPT !.i = run.i + 1, !.results = results]
                /\ UNCHANGED <<isProcessing, completions>>
           ELSE /\ sources' = completed
                /\ isProcessing' = FALSE
                /\ completions' = Append(completions, results)
                /\ run' = NoRun
    /\ UNCHANGED <<pipelineVars, concurrentVars, analysis, storeVars>>

NextCollector == AddSource \/ RemoveSource \/ StartAnalysis \/ ExtractResolves

SpecCollector == Init /\ [][NextCollector]_vars

----------------------------------------------------------------------------
(* Concurrent calls to analyzeContent on one service instance. Each call   *)
(* holds its lists in locals; the objects the lists refer to live in one   *)
(* heap: an attributes object is an index of objects.bags, an entity       *)
(* object and a contexts array are numbers counted by objects.allocated.   *)

\* the calls in flight together
Calls == {1, 2}

ConcurrentNlp ==
    { [status |-> "error", entities |-> <<>>],
      [status |-> "ok",
       entities |-> <<[entity |-> "product", utterance |-> <<"c">>,
                       option |-> "type", accuracy |-> 1000]>>] }

ConcurrentAi ==
    { ReplyError,
      Reply(<<Open, Member("entities", TRUE,
                <<Row("product", << <<"C">> >>, <<Attrs(Undefined, "8205")>>, <<>>)>>),
              Close>>),
      Reply(<<Open, Member("entities", TRUE,
                <<Row("business", << <<"A", "b">> >>, <<>>, <<900>>),
                  Row("product", << <<"A", "b">> >>, <<>>, <<700>>)>>),
              Close>>) }

ConcurrentCls ==
    { ReplyError,
      Reply(<<Open, Member("classifications", TRUE,
                <<ClsRow(<< <<"C">> >>, "Tools", <<>>, <<"8205">>, <<900>>)>>),
              Close>>),
      Reply(<<Open, Member("classifications", TRUE,
                <<ClsRow(<< <<"a", "b">> >>, "Parts", <<>>, <<>>, <<600>>)>>),
              Close>>) }

\* the locals of a call that has passed the ready check
StartedCall(types, overlapped) ==
    [pc |-> "nlp", entityTypes |-> types, overlapped |-> overlapped,
     nlp |-> [status |-> "none", entities |-> <<>>], ai |-> NoReply, cls |-> NoReply,
     nlpEntities |-> <<>>, nlpRefs |-> <<>>,
     mergedEntities |-> <<>>, mergedRefs |-> <<>>,
     response |-> [entities |-> <<>>, refs |-> <<>>,
                   confidence |-> [num |-> 0, den |-> 1]]]

InFlight(call) == call.pc \in {"nlp", "ai", "classify"}

BagAddressInterned(bags, bag, fresh) ==
    IF \E a \in 1..Len(bags) : bags[a] = bag
    THEN Least({a \in 1..Len(bags) : bags[a] = bag})
    ELSE fresh

\* an object literal, and an object JSON.parse builds, is a new object
BagAddress(bags, bag, fresh) == fresh

\* the objects an extractor builds for its entities: per entity a new entity
\* object, a new attributes object and a new contexts array
Allocate(objs, entities) ==
    [refs |->
        [i \in 1..Len(entities) |->
            [self |-> objs.allocated + 2 * i - 1,
             contexts |-> objs.allocated + 2 * i,
             attributes |-> BagAddress(objs.bags, entities[i].attributes,
                                       Len(objs.bags) + i)]],
     objects |->
        [bags |-> objs.bags \o [i \in 1..Len(entities) |-> entities[i].attributes],
         allocated |-> objs.allocated + 2 * Len(entities)]]

\* the entities of a list with the attributes their objects hold now
Load(entities, refs, bags) ==
    [i \in 1..Len(entities) |->
        [entities[i] EXCEPT !.attributes = bags[refs[i].attributes]]]

\* the writes of the classifier into the attributes objects of the list
RECURSIVE StoreBags(_, _, _, _)
StoreBags(bags, refs, entities, j) ==
    IF j > Len(entities) THEN bags
    ELSE StoreBags([bags EXCEPT ![refs[j].attributes] = entities[j].attributes],
                   refs, entities, j + 1)

HoldersOf(all, key) == {p \in 1..Len(all) : EntityKey(all[p]) = key}

\* mergeEntities on the heap: every merged entity is a new object
\* ({...entity}); it keeps the attributes object and the contexts array of
\* the one entity with its key, and gets a new attributes object and a new
\* contexts array when a second entity with its key was merged into it
MergeOnHeap(objs, all, allRefs, merged) ==
    LET Rebuilt(j) == Cardinality(HoldersOf(all, EntityKey(merged[j]))) > 1
        RebuiltUpTo(j) == Cardinality({i \in 1..j : Rebuilt(i)})
        rebuilt == RebuiltUpTo(Len(merged))
        first(j) == Least(HoldersOf(all, EntityKey(merged[j])))
    IN  [refs |->
            [j \in 1..Len(merged) |->
                [self |-> objs.allocated + j,
                 attributes |->
                    IF Rebuilt(j) THEN Len(objs.bags) + RebuiltUpTo(j)
                    ELSE allRefs[first(j)].attributes,
                 contexts |->
                    IF Rebuilt(j) THEN objs.allocated + Len(merged) + RebuiltUpTo(j)
                    ELSE allRefs[first(j)].contexts]],
         objects |->
            [bags |-> objs.bags \o
                [k \in 1..rebuilt |->
                    merged[CHOOSE j \in 1..Len(merged) :
                              Rebuilt(j) /\ RebuiltUpTo(j) = k].attributes],
             allocated |-> objs.allocated + Len(merged) + rebuilt]]

\* calculateEntityConfidence on the heap: { ...entity, confidence } is a new
\* entity object with the attributes object and the contexts array of the
\* entity; then the response
RespondOnHeap(objs, classified, refs) ==
    LET scored == calculateEntityConfidence(classified) IN
    [response |->
        [entities |-> scored,
         refs |-> [j \in 1..Len(refs) |-> [refs[j] EXCEPT !.self = objs.allocated + j]],
         confidence |-> calculateOverallConfidence(scored)],
     objects |-> [objs EXCEPT !.allocated = @ + Len(scored)]]

\* analyzeContent up to its first await, for one more call
ConcurrentAnalyzeContent ==
    /\ Len(invocations) < Cardinality(Calls)
    /\ invocations' =
          Append(invocations,
                 IF ready
                 THEN StartedCall(EntityTypes,
                                  \E c \in 1..Len(invocations) : InFlight(invocations[c]))
                 ELSE [pc |-> "rejected"])
    /\ UNCHANGED <<pipelineVars, objects, analysis, collectorVars, storeVars>>

ConcurrentNlpSettles ==
    \E c \in 1..Len(invocations), result \in ConcurrentNlp :
        /\ invocations[c].pc = "nlp"
        /\ LET built == Allocate(objects, extractEntitiesWithNLP(result)) IN
           /\ invocations' = [invocations EXCEPT
                                 ![c].pc = "ai", ![c].nlp = result,
                                 ![c].nlpEntities = extractEntitiesWithNLP(result),
                                 ![c].nlpRefs = built.refs]
           /\ objects' = built.objects
        /\ UNCHANGED <<pipelineVars, analysis, collectorVars, storeVars>>

ConcurrentAiSettles ==
    \E c \in 1..Len(invocations), reply \in ConcurrentAi :
        /\ invocations[c].pc = "ai"
        /\ LET call == invocations[c]
               nlp == Load(call.nlpEntities, call.nlpRefs, objects.bags)
               ai == extractEntitiesWithAI(reply, call.entityTypes)
               built == Allocate(objects, ai)
               merged == mergeEntities(nlp, ai)
               fused == MergeOnHeap(built.objects, AllEntities(nlp, ai),
                                    call.nlpRefs \o built.refs, merged)
               answered == RespondOnHeap(fused.objects,
                                         classifyEntities(merged, NoReply), fused.refs)
           IN  IF ProductIndexes(merged) = {}
               THEN /\ invocations' = [invocations EXCEPT
                                          ![c].pc = "done", ![c].ai = reply,
                                          ![c].mergedEntities = merged,
                                          ![c].mergedRefs = fused.refs,
                                          ![c].response = answered.response]
                    /\ objects' = answered.objects
               ELSE /\ invocations' = [invocations EXCEPT
                                          ![c].pc = "classify", ![c].ai = reply,
                                          ![c].mergedEntities = merged,
                                          ![c].mergedRefs = fused.refs]
                    /\ objects' = fused.objects
        /\ UNCHANGED <<pipelineVars, analysis, collectorVars, storeVars>>

ConcurrentClassifierSettles ==
    \E c \in 1..Len(invocations), reply \in ConcurrentCls :
        /\ invocations[c].pc = "classify"
        /\ LET call == invocations[c]
               merged == Load(call.mergedEntities, call.mergedRefs, objects.bags)
               classified == classifyEntities(merged, reply)
               written == [objects EXCEPT
                              !.bags = StoreBags(@, call.mergedRefs, classified, 1)]
               answered == RespondOnHeap(written, classified, call.mergedRefs)
           IN  /\ invocations' = [invocations EXCEPT
                                     ![c].pc = "done", ![c].cls = reply,
                                     ![c].response = answered.response]
               /\ objects' = answered.objects
        /\ UNCHANGED <<pipelineVars, analysis, collectorVars, storeVars>>

NextConcurrent ==
    \/ TrainResolves
    \/ TrainRejects
    \/ ConcurrentAnalyzeContent
    \/ ConcurrentNlpSettles
    \/ ConcurrentAiSettles
    \/ ConcurrentClassifierSettles

SpecConcurrent == Init /\ [][NextConcurrent]_vars

----------------------------------------------------------------------------
(* The claims about a call to analyzeContent, checked under Spec *)

Returned == pc = "done"

\* the classification prompt was posted and its answer has settled
ClassifierCalled == Returned /\ clsReply.status # "none"

\* the rows of the answer, when the answer holds a JSON object with an array
\* of classifications
ClassificationRows ==
    IF clsReply.status = "ok" /\ JsonMatch(clsReply.content) # <<>>
         /\ JsonValid(JsonMatch(clsReply.content))
         /\ JsonGet(JsonMatch(clsReply.content), "classifications").isArray
    THEN <<JsonGet(JsonMatch(clsReply.content), "classifications").rows>>
    ELSE <<>>

\* the call failed or its answer cannot be parsed or validated: no JSON
\* object, invalid JSON, no array of classifications, or a row without a name
ClassificationFailed ==
    \/ ClassificationRows = <<>>
    \/ \E r \in 1..Len(ClassificationRows[1]) : ClassificationRows[1][r].name = <<>>

\* the rows returned for a product: those whose name equals the product's
\* name ignoring letter case
RowsFor(entity) ==
    {r \in 1..Len(ClassificationRows[1]) :
        ToLowerCase(ClassificationRows[1][r].name[1]) = ToLowerCase(entity.name)}

\* C6: after the classifier, a product for which the backend returned a row
\* with a confidence has the mean of its confidence on entry and the
\* returned one; a product with no row, or whose row carries no confidence,
\* keeps the confidence it had on entry.
C6_ClassifierBlendsConfidence ==
    (ClassifierCalled /\ ~ClassificationFailed) =>
        \A i \in ProductIndexes(mergedEntities) :
            LET rows == RowsFor(mergedEntities[i])
                scored == {r \in rows : ClassificationRows[1][r].confidence # <<>>}
            IN  /\ scored = {} =>
                     classifiedEntities[i].confidence = mergedEntities[i].confidence
                /\ \A r \in scored :
                     rows = {r} =>
                        2 * classifiedEntities[i].confidence
                            = mergedEntities[i].confidence
                                + ClassificationRows[1][r].confidence[1]

\* C7: when the classification call fails or its answer cannot be parsed or
\* validated, every product leaves the classifier with the attributes and
\* the confidence it had on entry, and the call returns.
C7_FailedClassificationChangesNothing ==
    (pc \in {"done", "failed"} /\ clsReply.status # "none" /\ ClassificationFailed) =>
        /\ Returned
        /\ \A i \in ProductIndexes(mergedEntities) :
              /\ classifiedEntities[i].attributes = mergedEntities[i].attributes
              /\ classifiedEntities[i].confidence = mergedEntities[i].confidence

\* C8: a call on a ready service whose only faults are extractor-local or
\* backend-protocol ones returns a response: analyzeContent does not throw.
C8_PartialFailureNeverThrows == pc # "failed"

\* C9: every entity of a returned response has a type of the request's
\* entityTypes.
C9_ResponseTypesAreRequested ==
    Returned =>
        \A i \in 1..Len(response.entities) : response.entities[i].type \in entityTypes

\* C10: every entity of a returned response has a confidence within [0, 1].
C10_ResponseConfidenceInUnitInterval ==
    Returned =>
        \A i \in 1..Len(response.entities) :
            /\ response.entities[i].confidence >= 0
            /\ response.entities[i].confidence <= One

----------------------------------------------------------------------------
(* The scorer's claims *)

Scored == pc = "scored"

\* C11: after calculateEntityConfidence every entity's confidence is at most
\* 1.0, whatever its type, name length, attributes and input confidence.
C11_ScoredConfidenceAtMostOne ==
    Scored =>
        \A i \in 1..Len(response.entities) : response.entities[i].confidence <= One

\* C11's case: an entity whose adjusted confidence exceeds 1.0 left the
\* scorer with exactly 1.0
C11_Witness ==
    /\ Scored
    /\ \E i \in 1..Len(classifiedEntities) :
        /\ classifiedEntities[i].confidence <= One
        /\ AdjustedConfidence(classifiedEntities[i]) > One
        /\ response.entities[i].confidence = One

\* the products the scorer boosts: those with a populated category or code
Boosted(entities) ==
    {i \in ProductIndexes(entities) :
        Truthy(entities[i].attributes["category"])
            \/ Truthy(entities[i].attributes["hsCode"])}

\* C12: a product with a populated category or code leaves the scorer with a
\* confidence that is at least its input confidence and at most 1.0.
C12_BoostIsMonotonic ==
    Returned =>
        \A i \in Boosted(classifiedEntities) :
            /\ response.entities[i].confidence >= classifiedEntities[i].confidence
            /\ response.entities[i].confidence <= One

----------------------------------------------------------------------------
(* Readiness *)

\* C13: a request submitted before the training has completed is rejected
\* as not ready, with no recognizer processing and no backend call, and is
\* never answered with a result.
C13_NotReadyIsRejected ==
    /\ [](pc \in {"nlp", "ai", "classify", "done", "failed"} => training = "done")
    /\ [](pc = "rejected" => (calls = NoCalls /\ response = NoResponse))
    /\ [][(pc = "idle" /\ pc' # "idle" /\ training # "done") =>
            (pc' = "rejected" /\ UNCHANGED <<hostVars, calls, response, nlpEntities, aiEntities>>)]_vars

\* C13's case: a request was submitted while the training was running and
\* was rejected; the training has completed since
C13_Witness == pc = "rejected" /\ training = "done" /\ ready

\* C14: when the training fails the service never becomes ready, and from
\* then on every request is refused.
C14_FailedTrainingNeverServes ==
    /\ [](training = "failed" => (~ready /\ pc \in {"idle", "rejected"}))
    /\ [][training = "failed" => training' = "failed"]_vars

\* C14's case: the training failed and a request was refused
C14_Witness == training = "failed" /\ pc = "rejected"

\* C15: every call to analyzeContent on a ready service completes, by a
\* response or an error, also when the recognizer or the backend never
\* answers.
C15_EveryCallCompletes == (pc = "nlp") ~> (pc \in {"done", "failed"})

----------------------------------------------------------------------------
(* The extractors *)

Completed == pc \in {"done", "failed"}

\* the model-based extractor failed: backend error, no JSON object, or JSON
\* that does not parse
AiExtractorFailed ==
    \/ aiReply.status = "error"
    \/ /\ aiReply.status = "ok"
       /\ \/ JsonMatch(aiReply.content) = <<>>
          \/ ~JsonValid(JsonMatch(aiReply.content))

\* every entity of the list has an entity of the response with its key
RepresentedInResponse(list) ==
    \A i \in 1..Len(list) : Holders(response.entities, NormKey(list[i])) # {}

\* C16: when one extractor fails it contributes an empty list, the response
\* holds every entity the other extractor found, and analyzeContent returns
\* a response.
C16_FailingExtractorDoesNotBlock ==
    /\ (Completed /\ AiExtractorFailed) =>
          (Returned /\ aiEntities = <<>> /\ RepresentedInResponse(nlpEntities))
    /\ (Completed /\ nlpStatus = "error") =>
          (Returned /\ nlpEntities = <<>> /\ RepresentedInResponse(aiEntities))

Parsed == pc = "parsed"

\* the "}" that closes the "{" before position j, 0 when there is none
RECURSIVE CloseOf(_, _, _)
CloseOf(text, j, depth) ==
    IF j > Len(text) THEN 0
    ELSE IF text[j].t = "{" THEN CloseOf(text, j + 1, depth + 1)
    ELSE IF text[j].t = "}"
         THEN IF depth = 1 THEN j ELSE CloseOf(text, j + 1, depth - 1)
    ELSE CloseOf(text, j + 1, depth)

\* where the balanced spans of the text that are JSON objects start
JsonObjectStarts(text) ==
    {i \in Positions(text, "{") :
        /\ CloseOf(text, i + 1, 1) # 0
        /\ JsonValid(SubSeq(text, i, CloseOf(text, i + 1, 1)))}

FirstJsonObject(text) ==
    SubSeq(text, Least(JsonObjectStarts(text)),
           CloseOf(text, Least(JsonObjectStarts(text)) + 1, 1))

\* C17: for a response that holds a JSON object {"entities": [...]},
\* whatever prose stands before or after it, the extractor returns the
\* entities of the first balanced JSON object of the text.
C17_ParsesFirstBalancedObject ==
    (Parsed /\ JsonObjectStarts(aiReply.content) # {}) =>
        LET entities == JsonGet(FirstJsonObject(aiReply.content), "entities") IN
        (entities.hasKey /\ entities.isArray) =>
            aiEntities = FilterAndMap(entities.rows, entityTypes)

\* the rows the code's own parse reads, <<rows>> or <<>> when it reads none
ParsedRows ==
    IF JsonMatch(aiReply.content) # <<>> /\ JsonValid(JsonMatch(aiReply.content))
         /\ JsonGet(JsonMatch(aiReply.content), "entities").isArray
    THEN <<JsonGet(JsonMatch(aiReply.content), "entities").rows>>
    ELSE <<>>

RowIsRequested(row) == row.type \in entityTypes

\* C18: every entity the model-based extractor returns has a requested
\* type; a row of another type is removed.
C18_ExtractorKeepsRequestedTypes ==
    Parsed =>
        /\ \A i \in 1..Len(aiEntities) : aiEntities[i].type \in entityTypes
        /\ ParsedRows # <<>> =>
              Len(aiEntities) = Len(SelectSeq(ParsedRows[1], RowIsRequested))

\* C18's case, scenario E: business is requested, the backend returns a
\* product and a business, the business alone is returned
C18_Witness ==
    /\ Parsed
    /\ entityTypes = {"business"}
    /\ ParsedRows # <<>>
    /\ Len(ParsedRows[1]) = 2
    /\ \E r \in 1..2 : ParsedRows[1][r].type = "product"
    /\ Len(aiEntities) = 1
    /\ aiEntities[1].type = "business"

\* C19: an entity of the model-based extractor has the confidence the model
\* reported, whatever the value, and 0.5 when the model omitted it.
C19_ConfidenceIsTheReportedScore ==
    (Parsed /\ ParsedRows # <<>>) =>
        LET kept == SelectSeq(ParsedRows[1], RowIsRequested) IN
        /\ Len(aiEntities) = Len(kept)
        /\ \A i \in 1..Len(kept) :
              aiEntities[i].confidence =
                  IF kept[i].confidence = <<>> THEN 500 ELSE kept[i].confidence[1]

----------------------------------------------------------------------------
(* External calls *)

\* C20: a call to analyzeContent issues at most one extraction post and at
\* most one classification post: one when the merged list holds a product,
\* none when it holds none; a post that failed is not issued again.
C20_OneCallPerStage ==
    /\ calls.process <= 1 /\ calls.extraction <= 1 /\ calls.classification <= 1
    /\ pc \in {"classify", "done"} =>
          calls.classification = IF ProductIndexes(mergedEntities) = {} THEN 0 ELSE 1
    /\ pc \in {"idle", "rejected", "nlp", "ai", "failed"} => calls.classification = 0
    /\ pc \in {"ai", "classify", "done", "failed"} => calls.extraction = 1

\* C20's case: the merged list holds two products, the extraction post
\* succeeded and the classification post failed; one post of each kind
C20_Witness ==
    /\ Returned
    /\ Cardinality(ProductIndexes(mergedEntities)) = 2
    /\ clsReply.status = "error"
    /\ calls.extraction = 1
    /\ calls.classification = 1

----------------------------------------------------------------------------
(* The fuser's handling of a repeated key and of its inputs, checked       *)
(* under SpecFuser                                                         *)

\* the contexts of the entities of a list that have the key, in the order
\* of the list
RECURSIVE ContextsWithKey(_, _)
ContextsWithKey(list, key) ==
    IF list = <<>> THEN <<>>
    ELSE (IF NormKey(Head(list)) = key THEN Head(list).contexts ELSE <<>>)
            \o ContextsWithKey(Tail(list), key)

\* the value the last entity with the key that holds the attribute gives it
LastValue(list, key, k) ==
    LET holding == {i \in Holders(list, key) : list[i].attributes[k] # Undefined} IN
    IF holding = {} THEN Undefined ELSE list[Greatest(holding)].attributes[k]

\* C25: the fused entity of a key has the union of the attributes of all
\* entities with that key, the later-processed entity's value where two hold
\* the same attribute, and the concatenation of their contexts in
\* processing order.
C25_AttributesUnionContextsAppend ==
    FuserRan =>
        \A key \in KeysOf(FuserInputs) :
            LET fused == FusedWith(mergedEntities, key) IN
            /\ \A k \in AttrKeys : fused.attributes[k] = LastValue(FuserInputs, key, k)
            /\ fused.contexts = ContextsWithKey(FuserInputs, key)

\* C25's case: two entities with one key give the category different values
\* and only one of them holds a code; the fused entity has the later
\* category, the code, and both contexts in order
C25_Witness ==
    /\ FuserRan
    /\ \E i, j \in 1..Len(FuserInputs) :
        /\ i < j
        /\ NormKey(FuserInputs[i]) = NormKey(FuserInputs[j])
        /\ FuserInputs[i].attributes["category"] # Undefined
        /\ FuserInputs[j].attributes["category"] # Undefined
        /\ FuserInputs[i].attributes["category"] # FuserInputs[j].attributes["category"]
        /\ FuserInputs[i].attributes["hsCode"] # FuserInputs[j].attributes["hsCode"]
        /\ LET fused == FusedWith(mergedEntities, NormKey(FuserInputs[i])) IN
            /\ fused.attributes["category"] = FuserInputs[j].attributes["category"]
            /\ fused.attributes["hsCode"] = "8205"
            /\ fused.contexts = FuserInputs[i].contexts \o FuserInputs[j].contexts
            /\ FuserInputs[i].contexts # FuserInputs[j].contexts

\* C27: mergeEntities leaves its two input lists as they were: the same
\* length and order, every entity with the attributes, contexts and
\* confidence it had before the call.
C27_MergeLeavesInputsUnchanged ==
    FuserRan => (inputsAfter.nlp = nlpEntities /\ inputsAfter.ai = aiEntities)

\* C27's case: an entity of the first list has the key of a later entity
\* with a larger confidence and other attributes, so the Map's entry was
\* written; the input entity is as it was
C27_Witness ==
    /\ FuserRan
    /\ Len(nlpEntities) >= 1 /\ Len(aiEntities) >= 1
    /\ NormKey(nlpEntities[1]) = NormKey(aiEntities[1])
    /\ nlpEntities[1].confidence < aiEntities[1].confidence
    /\ nlpEntities[1].attributes # aiEntities[1].attributes
    /\ mergedEntities[1].confidence = aiEntities[1].confidence
    /\ inputsAfter.nlp[1] = nlpEntities[1]

----------------------------------------------------------------------------
(* The classifier's patches in the response, checked under Spec *)

\* the rows of the answer whose name equals the entity's name ignoring
\* letter case
MatchingRows(entity) ==
    IF ClassificationRows = <<>> THEN {}
    ELSE {r \in 1..Len(ClassificationRows[1]) :
            /\ ClassificationRows[1][r].name # <<>>
            /\ ToLowerCase(ClassificationRows[1][r].name[1]) = ToLowerCase(entity.name)}

\* C22: a product is patched exactly when a classification row has its name
\* ignoring letter case: a matched product ends with the category of its
\* row, the subcategory and code the row gives, and a confidence not below
\* the one it had after fusion; a product without a row ends with the
\* attributes and the confidence it had after fusion.
C22_PatchedExactlyWhenMatched ==
    ClassifierCalled =>
        \A i \in ProductIndexes(mergedEntities) :
            LET rows == MatchingRows(mergedEntities[i])
                final == response.entities[i]
            IN  /\ rows = {} =>
                     /\ final.attributes = mergedEntities[i].attributes
                     /\ final.confidence = mergedEntities[i].confidence
                /\ rows # {} =>
                     LET row == ClassificationRows[1][Greatest(rows)] IN
                     /\ final.attributes["category"] = row.category
                     /\ row.subcategory # <<>> =>
                           final.attributes["subcategory"] = row.subcategory[1]
                     /\ row.hsCode # <<>> => final.attributes["hsCode"] = row.hsCode[1]
                     /\ final.confidence >= mergedEntities[i].confidence

----------------------------------------------------------------------------
(* The aggregate confidence and the scorer's frame *)

\* sum(confidence_i * w(type_i)) and sum(w(type_i)) from position i on
RECURSIVE SumOfWeighted(_, _)
SumOfWeighted(list, i) ==
    IF i > Len(list) THEN 0
    ELSE list[i].confidence * TypeWeight(list[i].type) + SumOfWeighted(list, i + 1)

RECURSIVE SumOfWeights(_, _)
SumOfWeights(list, i) ==
    IF i > Len(list) THEN 0
    ELSE TypeWeight(list[i].type) + SumOfWeights(list, i + 1)

MinConfidence(list) ==
    CHOOSE x \in {list[i].confidence : i \in 1..Len(list)} :
        \A i \in 1..Len(list) : x <= list[i].confidence

MaxConfidence(list) ==
    CHOOSE x \in {list[i].confidence : i \in 1..Len(list)} :
        \A i \in 1..Len(list) : x >= list[i].confidence

\* C23: the aggregate confidence is exactly 0 for an empty list and
\* otherwise sum(confidence_i * w(type_i)) / sum(w(type_i)), with the weights
\* business > product = service > location > contact > person; it lies
\* between the smallest and the largest confidence of the response.
C23_AggregateIsWeightedMean ==
    Scored =>
        LET list == response.entities
        IN  /\ TypeWeight("business") > TypeWeight("product")
            /\ TypeWeight("product") = TypeWeight("service")
            /\ TypeWeight("service") > TypeWeight("location")
            /\ TypeWeight("location") > TypeWeight("contact")
            /\ TypeWeight("contact") > TypeWeight("person")
            /\ TypeWeight("person") > 0
            /\ list = <<>> => response.confidence.num = 0
            /\ list # <<>> =>
                  /\ response.confidence.den > 0
                  /\ response.confidence.num * SumOfWeights(list, 1)
                        = SumOfWeighted(list, 1) * response.confidence.den
                  /\ MinConfidence(list) * response.confidence.den
                        <= response.confidence.num
                  /\ response.confidence.num
                        <= MaxConfidence(list) * response.confidence.den

\* C23's case: a business and a person with different confidences; the
\* aggregate lies strictly between the two and is no plain mean
C23_Witness ==
    /\ Scored
    /\ Len(response.entities) = 2
    /\ response.entities[1].type = "business"
    /\ response.entities[2].type = "person"
    /\ response.entities[1].confidence > response.entities[2].confidence
    /\ response.confidence.num > response.entities[2].confidence * response.confidence.den
    /\ response.confidence.num < response.entities[1].confidence * response.confidence.den
    /\ 2 * response.confidence.num
          # (response.entities[1].confidence + response.entities[2].confidence)
                * response.confidence.den

\* the entities the scorer multiplies
Adjusted(entity) ==
    \/ entity.type = "business"
    \/ /\ entity.type = "product"
       /\ Truthy(entity.attributes["category"]) \/ Truthy(entity.attributes["hsCode"])
    \/ /\ entity.type = "location"
       /\ Truthy(entity.attributes["countryCode"]) \/ Truthy(entity.attributes["postalCode"])

\* C26: the scorer returns the same entities in the same order and number,
\* changes no field other than the confidence, and leaves the confidence of
\* every entity it does not multiply as it was.
C26_ScorerChangesConfidenceOnly ==
    Returned =>
        /\ Len(response.entities) = Len(classifiedEntities)
        /\ \A i \in 1..Len(classifiedEntities) :
              /\ [response.entities[i] EXCEPT !.confidence = 0]
                    = [classifiedEntities[i] EXCEPT !.confidence = 0]
              /\ ~Adjusted(classifiedEntities[i]) =>
                    response.entities[i].confidence = classifiedEntities[i].confidence

----------------------------------------------------------------------------
(* The order of the stages of a call, checked under Spec *)

\* the moves of a call from one await to the next
StageOrder ==
    { <<"idle", "rejected">>, <<"idle", "nlp">>, <<"nlp", "ai">>,
      <<"ai", "classify">>, <<"ai", "done">>, <<"ai", "failed">>,
      <<"classify", "done">> }

\* C24: in every call the stages occur in the order extractors, fusion,
\* classification, scoring: the lists are fused only when both extractors
\* have completed, the classification call is issued only after fusion, and
\* the scorer runs only when classification has completed or was skipped.
C24_StagesInOrder ==
    /\ [][pc' # pc => <<pc, pc'>> \in StageOrder]_vars
    /\ [](pc = "nlp" => (nlpStatus = "none" /\ aiReply.status = "none"))
    /\ [](pc \in {"idle", "rejected", "nlp", "ai"} =>
            /\ mergedEntities = <<>> /\ classifiedEntities = <<>>
            /\ calls.classification = 0 /\ clsReply.status = "none"
            /\ response = NoResponse)
    /\ [](pc \in {"classify", "done"} =>
            /\ nlpStatus # "none" /\ aiReply.status # "none"
            /\ mergedEntities = mergeEntities(nlpEntities, aiEntities))
    /\ [](pc = "classify" =>
            /\ calls.classification = 1 /\ clsReply.status = "none"
            /\ response = NoResponse)
    /\ [](pc = "done" =>
            /\ ProductIndexes(mergedEntities) # {} => clsReply.status # "none"
            /\ classifiedEntities = classifyEntities(mergedEntities, clsReply)
            /\ response = ResponseOf(classifiedEntities))

\* C24's case: both extractors found entities, a product among them was
\* classified, and the response holds the scored entities
C24_Witness ==
    /\ Returned
    /\ nlpEntities # <<>> /\ aiEntities # <<>>
    /\ clsReply.status = "ok"
    /\ Len(response.entities) = 2

----------------------------------------------------------------------------
(* The store's claim, checked under SpecStore *)

IdsStored(results) == {results[i].id : i \in 1..Len(results)}

\* a step that is the call named
StoreStep(op) == storeOp'.op = op /\ storeVars' # storeVars

\* C30: no two stored results have the same id: save of a stored id replaces
\* that entry in place and leaves the size, save of a new id appends one
\* entry; delete(id) returns true exactly when the id was stored, and
\* afterwards findById(id) returns null.
C30_StoreKeepsIdsUnique ==
    /\ [](\A i, j \in 1..Len(storedResults) :
            i # j => storedResults[i].id # storedResults[j].id)
    /\ [][StoreStep("save") =>
            LET result == storeOp'.result
                held == {i \in 1..Len(storedResults) : storedResults[i].id = result.id}
            IN  IF held # {}
                THEN /\ Len(storedResults') = Len(storedResults)
                     /\ \A i \in 1..Len(storedResults) :
                           IF i \in held
                           THEN /\ storedResults'[i].id = result.id
                                /\ storedResults'[i].createdAt = result.createdAt
                           ELSE storedResults'[i] = storedResults[i]
                ELSE storedResults' = Append(storedResults, result)]_vars
    /\ [][StoreStep("delete") =>
            /\ storeOp'.returned = (storeOp'.id \in IdsStored(storedResults))
            /\ findById(storedResults', storeOp'.id) = <<>>
            /\ storeOp'.id \notin IdsStored(storedResults')]_vars

\* C30's case: a result was saved under the id of the first of two stored
\* entries and took its place
C30_Witness ==
    /\ storeOp.op = "save"
    /\ Len(storedResults) = 2
    /\ storedResults[1].id = storeOp.result.id
    /\ storedResults[1].updatedAt = Now
    /\ storedResults[1] = storeOp.returned
    /\ storedResults[2].id # storedResults[1].id

----------------------------------------------------------------------------
(* The claim about analyzeWebsite, checked under SpecAnalyzer *)

CountOfType(extraction, type) == Len(OfType(extraction.extractedEntities, type))

\* C28: analyzeWebsite never throws: when the extraction raises an error the
\* result is failed, with confidence 0, businessInfo null, no products,
\* contacts or locations and the error message set; otherwise the result is
\* the transformed extraction, with the extraction's own status and confidence.
C28_AnalyzeWebsiteNeverThrows ==
    /\ analysis.pc # "threw"
    /\ analysis.pc = "returned" =>
        IF analysis.outcome.kind = "rejected"
        THEN /\ analysis.result.status = "failed"
             /\ analysis.result.confidence.num = 0
             /\ analysis.result.businessInfo = <<>>
             /\ analysis.result.products = <<>>
             /\ analysis.result.contacts = <<>>
             /\ analysis.result.locations = <<>>
             /\ analysis.result.error = <<analysis.outcome.error.text>>
        ELSE LET extraction == analysis.outcome.extraction IN
             /\ analysis.result.status = extraction.status
             /\ analysis.result.confidence = extraction.confidence
             /\ analysis.result.url = extraction.sourceUrl
             /\ Len(analysis.result.businessInfo)
                    = MathMin(1, CountOfType(extraction, "business"))
             /\ Len(analysis.result.products) = CountOfType(extraction, "product")
             /\ Len(analysis.result.contacts) = CountOfType(extraction, "contact")
             /\ Len(analysis.result.locations) = CountOfType(extraction, "location")

----------------------------------------------------------------------------
(* The claim about startAnalysis, checked under SpecCollector *)

Terminal(status) == status \in {"completed", "failed"}

StatusMoves ==
    {<<"pending", "processing">>, <<"processing", "completed">>,
     <<"processing", "failed">>}

WithStatus(list, status) == {i \in 1..Len(list) : list[i].status = status}

\* C29: the sources are processed one at a time in index order: a status
\* moves pending -> processing -> completed or failed and never leaves a
\* terminal status; at most one source is processing; onComplete is called
\* once per run, after every source is terminal, with one result per
\* completed source, whatever addSource calls are made while processing.
C29_SourcesProcessedInOrder ==
    /\ [](Cardinality(WithStatus(sources, "processing")) <= 1)
    /\ [][Len(sources') >= Len(sources) =>
            \A i \in 1..Len(sources) :
                \/ sources'[i].status = sources[i].status
                \/ <<sources[i].status, sources'[i].status>> \in StatusMoves]_vars
    /\ [][WithStatus(sources', "processing") # WithStatus(sources, "processing") =>
            \A i \in WithStatus(sources', "processing") :
                \A j \in 1..(i - 1) : Terminal(sources'[j].status)]_vars
    /\ [][completions' # completions =>
            /\ Len(completions') = Len(completions) + 1
            /\ run.pc = "awaiting" /\ run'.pc = "idle"
            /\ \A i \in 1..Len(sources') : Terminal(sources'[i].status)
            /\ Len(completions'[Len(completions')])
                   = Cardinality(WithStatus(sources', "completed"))]_vars

----------------------------------------------------------------------------
(* The claim about concurrent calls, checked under SpecConcurrent *)

Answered == {c \in 1..Len(invocations) : invocations[c].pc = "done"}

\* the response of a call as its objects hold it now
ResponseNow(c) ==
    [entities |-> Load(invocations[c].response.entities,
                       invocations[c].response.refs, objects.bags),
     confidence |-> invocations[c].response.confidence]

\* the response of the call run alone on the answers it received
ResponseAlone(c) ==
    ResponseOf(classifyEntities(
        mergeEntities(extractEntitiesWithNLP(invocations[c].nlp),
                      extractEntitiesWithAI(invocations[c].ai,
                                            invocations[c].entityTypes)),
        invocations[c].cls))

AttributesReachable(c) ==
    {invocations[c].response.refs[j].attributes
        : j \in 1..Len(invocations[c].response.refs)}

ObjectsReachable(c) ==
    UNION {{invocations[c].response.refs[j].self,
            invocations[c].response.refs[j].contexts}
              : j \in 1..Len(invocations[c].response.refs)}

\* C21: however two calls on a ready service interleave, the response of
\* each is the response it gives when run alone on the same answers of the
\* recognizer and the backend, no entity object, attributes object or
\* contexts array of one response belongs to the other, and the ready flag
\* is not written once it is set.
C21_ConcurrentCallsAreIsolated ==
    /\ [](\A c \in Answered : ResponseNow(c) = ResponseAlone(c))
    /\ [](\A c, d \in Answered :
            c # d => /\ AttributesReachable(c) \cap AttributesReachable(d) = {}
                     /\ ObjectsReachable(c) \cap ObjectsReachable(d) = {})
    /\ [][ready => ready']_vars

\* C21's case: the second call started while the first was in flight, both
\* have answered, each with a product the classifier patched, and the two
\* classifications differ
C21_Witness ==
    /\ Answered = Calls
    /\ invocations[2].overlapped
    /\ invocations[1].cls # invocations[2].cls
    /\ \A c \in Calls :
          /\ invocations[c].cls.status = "ok"
          /\ \E j \in 1..Len(invocations[c].response.entities) :
                /\ invocations[c].response.entities[j].type = "product"
                /\ ResponseNow(c).entities[j].attributes["category"] \in {"Tools", "Parts"}

====
